---- MODULE Spec2Model ----
(***************************************************************************)
(* ClawLink anti-loop protocol (lib/protocol.js) and auto-reply loop       *)
(* (lib/auto-reply.js).  Texts are sequences of one-character strings; a   *)
(* non-ASCII character is one token whose name is not a word character.    *)
(***************************************************************************)
EXTENDS Integers, Sequences, FiniteSets, TLC

(* ---------------------------------------------------------------------- *)
(* DEFAULTS and literal constants of protocol.js                          *)
(* ---------------------------------------------------------------------- *)
maxTurns == 20
cooldownMs == 5000
similarityThreshold == 3
sessionTimeoutMs == 3600000
HashWindow == 20
SimilarityWindow == 10

MSG == "msg"
ACK == "ack"
CONTROL == "control"
MessageType == {MSG, ACK, CONTROL}

END_SESSION == "end_session"
LOOP_DETECTED == "loop_detected"
ControlSignal ==
  {"start_session", END_SESSION, "pause", "resume", LOOP_DETECTED, "request_clarification"}

QUESTION == "question"
ACTION_REQUEST == "action_request"
INFORMATION == "information"
CONFIRMATION == "confirmation"
GREETING == "greeting"
NOISE == "noise"
Intent == {QUESTION, ACTION_REQUEST, INFORMATION, CONFIRMATION, GREETING, NOISE}

(* JavaScript undefined / absent property: the empty tuple; a present    *)
(* value v is the one-element tuple <<v>>.                                *)
None == <<>>
Some(v) == <<v>>
undefined == "undefined"

(* ---------------------------------------------------------------------- *)
(* Characters and strings                                                 *)
(* ---------------------------------------------------------------------- *)
LowerLetters ==
  {"a","b","c","d","e","f","g","h","i","j","k","l","m","n","o","p","q","r","s","t","u","v","w","x","y","z"}
UpperLetters ==
  {"A","B","C","D","E","F","G","H","I","J","K","L","M","N","O","P","Q","R","S","T","U","V","W","X","Y","Z"}
Digits == {"0","1","2","3","4","5","6","7","8","9"}
toLowerChar ==
  [c \in UpperLetters \cup {"A_grave"} |->
     CASE c = "A" -> "a"
       [] c = "B" -> "b"
       [] c = "C" -> "c"
       [] c = "D" -> "d"
       [] c = "E" -> "e"
       [] c = "F" -> "f"
       [] c = "G" -> "g"
       [] c = "H" -> "h"
       [] c = "I" -> "i"
       [] c = "J" -> "j"
       [] c = "K" -> "k"
       [] c = "L" -> "l"
       [] c = "M" -> "m"
       [] c = "N" -> "n"
       [] c = "O" -> "o"
       [] c = "P" -> "p"
       [] c = "Q" -> "q"
       [] c = "R" -> "r"
       [] c = "S" -> "s"
       [] c = "T" -> "t"
       [] c = "U" -> "u"
       [] c = "V" -> "v"
       [] c = "W" -> "w"
       [] c = "X" -> "x"
       [] c = "Y" -> "y"
       [] c = "Z" -> "z"
       [] c = "A_grave" -> "a_grave"]

(* \w and \s of a JavaScript regular expression without the u flag *)
IsWordChar(c) == c \in LowerLetters \cup UpperLetters \cup Digits \cup {"_"}
IsSpaceChar(c) == c = " "

toLowerCase(text) ==
  [i \in 1..Len(text) |-> IF text[i] \in DOMAIN toLowerChar THEN toLowerChar[text[i]] ELSE text[i]]

startsWith(text, w) ==
  /\ Len(w) <= Len(text)
  /\ SubSeq(text, 1, Len(w)) = w

(* w occurs in text starting at position i *)
occursAt(text, w, i) ==
  /\ i >= 1
  /\ i + Len(w) - 1 <= Len(text)
  /\ SubSeq(text, i, i + Len(w) - 1) = w

includes(text, w) == \E i \in 1..(Len(text) + 1) : occursAt(text, w, i)

(* \b between positions i and i+1 of text (i = 0: start, i = Len: end) *)
wordBoundary(text, i) ==
  LET before == i >= 1 /\ i <= Len(text) /\ IsWordChar(text[i])
      after == i + 1 >= 1 /\ i + 1 <= Len(text) /\ IsWordChar(text[i + 1])
  IN before # after

(* /^(w1|w2|...)/ *)
startsWithAny(text, words) == \E w \in words : startsWith(text, w)

(* /^(w1|w2|...)\b/ *)
startsWithAnyWord(text, words) ==
  \E w \in words : startsWith(text, w) /\ wordBoundary(text, Len(w))

(* /\b(w1|w2|...)\b/ *)
containsAnyWord(text, words) ==
  \E w \in words : \E i \in 1..Len(text) :
     occursAt(text, w, i) /\ wordBoundary(text, i - 1) /\ wordBoundary(text, i + Len(w) - 1)

(* .replace(/[^\w\s]/g, '') *)
stripPunctuation(text) == SelectSeq(text, LAMBDA c : IsWordChar(c) \/ IsSpaceChar(c))

(* .replace(/\s+/g, ' '): the first character of each run of white space *)
(* becomes one blank, the others are dropped                              *)
collapseWhitespace(text) ==
  LET marked == [i \in 1..Len(text) |->
                   IF ~IsSpaceChar(text[i]) THEN text[i]
                   ELSE IF i = 1 \/ ~IsSpaceChar(text[i - 1]) THEN " "
                   ELSE "dropped"]
  IN SelectSeq(marked, LAMBDA c : c # "dropped")

(* .trim() *)
trim(text) ==
  LET solid == {i \in 1..Len(text) : ~IsSpaceChar(text[i])}
  IN IF solid = {} THEN <<>>
     ELSE LET first == CHOOSE i \in solid : \A j \in solid : i <= j
              last == CHOOSE i \in solid : \A j \in solid : i >= j
          IN SubSeq(text, first, last)

normalize(text) == trim(collapseWhitespace(stripPunctuation(toLowerCase(text))))

(* ---------------------------------------------------------------------- *)
(* classifyIntent                                                         *)
(* ---------------------------------------------------------------------- *)

QuestionWordsEn ==
  { <<"w","h","a","t">>,
    <<"w","h","o">>,
    <<"w","h","e","r","e">>,
    <<"w","h","e","n">>,
    <<"w","h","y">>,
    <<"h","o","w">>,
    <<"i","s">>,
    <<"a","r","e">>,
    <<"d","o">>,
    <<"d","o","e","s">>,
    <<"c","a","n">>,
    <<"c","o","u","l","d">>,
    <<"w","o","u","l","d">>,
    <<"s","h","o","u","l","d">> }
QuestionWordsFr ==
  { <<"q","u","'","e","s","t">>,
    <<"q","u","i">>,
    <<"o","u_grave">>,
    <<"q","u","a","n","d">>,
    <<"p","o","u","r","q","u","o","i">>,
    <<"c","o","m","m","e","n","t">>,
    <<"e","s","t","-","c","e">> }
ActionPrefixes ==
  { <<"p","l","e","a","s","e">>,
    <<"p","e","u","x","-","t","u">>,
    <<"p","e","u","x"," ","t","u">>,
    <<"f","a","i","s">>,
    <<"f","a","i","t">>,
    <<"e","n","v","o","i","e">>,
    <<"c","h","e","r","c","h","e">>,
    <<"t","r","o","u","v","e">>,
    <<"a","n","a","l","y","s","e">>,
    <<"e","x","p","l","i","q","u","e">>,
    <<"d","i","s","-","m","o","i">>,
    <<"t","e","l","l"," ","m","e">>,
    <<"s","e","n","d">>,
    <<"f","i","n","d">>,
    <<"s","e","a","r","c","h">>,
    <<"d","o">>,
    <<"m","a","k","e">> }
PolitenessMarkers ==
  { <<"s","'","i","l"," ","t","e"," ","p","l","a","i","t">>,
    <<"s","'","i","l"," ","t","e"," ","p","l","a","i_circ","t">>,
    <<"p","l","e","a","s","e">> }
GreetingWords ==
  { <<"h","i">>,
    <<"h","e","l","l","o">>,
    <<"h","e","y">>,
    <<"s","a","l","u","t">>,
    <<"b","o","n","j","o","u","r">>,
    <<"c","o","u","c","o","u">>,
    <<"y","o">> }
ConfirmationWords ==
  { <<"o","k">>,
    <<"o","k","a","y">>,
    <<"o","u","i">>,
    <<"y","e","s">>,
    <<"n","o","n">>,
    <<"n","o">>,
    <<"d","'","a","c","c","o","r","d">>,
    <<"p","a","r","f","a","i","t">>,
    <<"s","u","p","e","r">>,
    <<"c","o","o","l">>,
    <<"m","e","r","c","i">>,
    <<"t","h","a","n","k","s">>,
    <<"g","o","t"," ","i","t">>,
    <<"c","o","m","p","r","i","s">>,
    <<"u","n","d","e","r","s","t","o","o","d">> }

(* classifyIntent with the greeting test placed first *)
classifyIntentGreetingFirst(text) ==
  LET lower == toLowerCase(text)
  IN IF startsWithAnyWord(lower, GreetingWords)
     THEN GREETING
     ELSE IF \/ includes(lower, <<"?">>)
             \/ startsWithAny(lower, QuestionWordsEn)
             \/ startsWithAny(lower, QuestionWordsFr)
     THEN QUESTION
     ELSE IF \/ startsWithAny(lower, ActionPrefixes)
             \/ containsAnyWord(lower, PolitenessMarkers)
     THEN ACTION_REQUEST
     ELSE IF startsWithAnyWord(lower, ConfirmationWords)
     THEN CONFIRMATION
     ELSE INFORMATION

classifyIntent(text) ==
  LET lower == toLowerCase(text)
  IN IF \/ includes(lower, <<"?">>)
        \/ startsWithAny(lower, QuestionWordsEn)
        \/ startsWithAny(lower, QuestionWordsFr)
     THEN QUESTION
     ELSE IF \/ startsWithAny(lower, ActionPrefixes)
             \/ containsAnyWord(lower, PolitenessMarkers)
     THEN ACTION_REQUEST
     ELSE IF startsWithAnyWord(lower, GreetingWords)
     THEN GREETING
     ELSE IF startsWithAnyWord(lower, ConfirmationWords)
     THEN CONFIRMATION
     ELSE INFORMATION

(* ---------------------------------------------------------------------- *)
(* Texts used as inputs                                                   *)
(* ---------------------------------------------------------------------- *)
TxtHello ==
  <<"H","e","l","l","o","!">>
TxtHelloShout ==
  <<"H","E","L","L","O"," "," ","!","!">>
TxtThanks ==
  <<"T","h","a","n","k","s","!">>
TxtWeather ==
  <<"C","a","n"," ","y","o","u"," ","s","e","a","r","c","h"," ","f","o","r"," ","w","e","a","t","h",
  "e","r","?">>
TxtFyi ==
  <<"F","Y","I",":"," ","d","o","n","e">>
TxtPlease ==
  <<"P","l","e","a","s","e"," ","h","e","l","p">>
TxtEmpty ==
  <<>>
(* texts that match several intent classes *)
TxtHelloQuestion ==
  <<"H","e","l","l","o",","," ","h","o","w"," ","a","r","e"," ","y","o","u","?">>
TxtDoIt ==
  <<"D","o"," ","i","t"," ","n","o","w">>
TxtHiPlease ==
  <<"H","i",","," ","p","l","e","a","s","e"," ","h","e","l","p">>
TxtOkPlease ==
  <<"O","k"," ","p","l","e","a","s","e"," ","s","e","n","d"," ","i","t">>
TxtThanksQuestion ==
  <<"T","h","a","n","k","s","?">>

(* ---------------------------------------------------------------------- *)
(* Auto-reply texts (auto-reply.js)                                       *)
(* ---------------------------------------------------------------------- *)
TxtEndNotice ==
  <<"emoji_end"," ","S","e","s","s","i","o","n"," ","t","e","r","m","i","n","e_acute","e"," ","(","l",
  "i","m","i","t","e"," ","d","'","e_acute","c","h","a","n","g","e","s"," ","a","t","t","e","i","n",
  "t","e",")","."," ","A_grave"," ","b","i","e","n","t","o_circ","t","!">>
TxtLoopNotice ==
  <<"emoji_loop"," ","B","o","u","c","l","e"," ","d","e_acute","t","e","c","t","e_acute","e",","," ",
  "j","e"," ","f","a","i","s"," ","u","n","e"," ","p","a","u","s","e","."," ","O","n"," ","r","e","p",
  "r","e","n","d"," ","p","l","u","s"," ","t","a","r","d","!">>
(* JSON.stringify of an end_session control envelope, sent as a text *)
TxtEndSessionControl ==
  <<"{","quote","t","y","p","e","quote",":","quote","c","o","n","t","r","o","l","quote",",","quote",
  "b","o","d","y","quote",":","{","quote","s","i","g","n","a","l","quote",":","quote","e","n","d","_",
  "s","e","s","s","i","o","n","quote","}","}">>
TxtReplyQuestion ==
  <<"B","o","n","n","e"," ","q","u","e","s","t","i","o","n","!"," ","J","e"," ","v","a","i","s"," ",
  "r","e_acute","f","l","e_acute","c","h","i","r"," ","a_grave"," ","c_cedilla","a","."," ","P","o",
  "u","r"," ","l","'","i","n","s","t","a","n","t"," ","j","e"," ","s","u","i","s"," ","e","n","c","o",
  "r","e"," ","e","n"," ","p","h","a","s","e"," ","d","e"," ","c","o","n","f","i","g","u","r","a","t",
  "i","o","n",","," ","m","a","i","s"," ","b","i","e","n","t","o_circ","t"," ","o","n"," ","p","o",
  "u","r","r","a"," ","f","a","i","r","e"," ","p","l","e","i","n"," ","d","e"," ","t","r","u","c","s",
  " ","e","n","s","e","m","b","l","e","!">>
TxtReplyAction ==
  <<"J","e"," ","n","o","t","e"," ","t","a"," ","d","e","m","a","n","d","e","!"," ","P","o","u","r",
  " ","l","'","i","n","s","t","a","n","t"," ","m","e","s"," ","c","a","p","a","c","i","t","e_acute",
  "s"," ","i","n","t","e","r","-","a","g","e","n","t","s"," ","s","o","n","t"," ","l","i","m","i","t",
  "e_acute","e","s",","," ","m","a","i","s"," ","o","n"," ","t","r","a","v","a","i","l","l","e"," ",
  "s","u","r"," ","l","e"," ","T","a","s","k"," ","P","r","o","t","o","c","o","l"," ","p","o","u","r",
  " ","q","u","e"," ","j","e"," ","p","u","i","s","s","e"," ","t","'","a","i","d","e","r","."," ","S",
  "t","a","y"," ","t","u","n","e","d","!"," ","emoji_rocket">>
TxtReplyInformation ==
  <<"B","i","e","n"," ","r","e","c_cedilla","u","!"," ","emoji_thumb">>
GreetingSalutA ==
  <<"S","a","l","u","t"," ">>
GreetingSalutB ==
  <<"!"," ","I","c","i"," ">>
GreetingSalutC ==
  <<" ","emoji_wave"," ","R","a","v","i"," ","d","e"," ","t","e"," ","p","a","r","l","e","r"," ","v",
  "i","a"," ","C","l","a","w","L","i","n","k","!">>
GreetingHeyA ==
  <<"H","e","y"," ">>
GreetingHeyB ==
  <<"!"," ">>
GreetingHeyC ==
  <<" ","a_grave"," ","l","'","a","p","p","a","r","e","i","l","."," ","C","o","m","m","e","n","t"," ",
  "c_cedilla","a"," ","v","a","?">>
GreetingCoucouA ==
  <<"C","o","u","c","o","u"," ">>
GreetingCoucouB ==
  <<"!"," ","C","o","n","t","e","n","t"," ","d","e"," ","t","e"," ","v","o","i","r"," ","s","u","r",
  " ","l","e"," ","r","e_acute","s","e","a","u","!">>
IdentityA ==
  <<"J","e"," ","s","u","i","s"," ">>
IdentityB ==
  <<","," ","u","n"," ","a","g","e","n","t"," ","I","A"," ","q","u","i"," ","a","s","s","i","s","t",
  "e"," ">>
IdentityC ==
  <<"!"," ","emoji_robot"," ","J","e"," ","t","o","u","r","n","e"," ","s","u","r"," ","u","n"," ","s",
  "e","r","v","e","u","r"," ","e","t"," ","j","'","a","i","d","e"," ","p","o","u","r"," ","l","'","a",
  "u","t","o","m","a","t","i","s","a","t","i","o","n",","," ","l","a"," ","r","e","c","h","e","r","c",
  "h","e",","," ","e","t"," ","p","l","e","i","n"," ","d","'","a","u","t","r","e","s"," ","c","h","o",
  "s","e","s","."," ","E","t"," ","t","o","i",","," ","t","u"," ","a","s","s","i","s","t","e","s"," ",
  "q","u","i","?">>
DefaultReplyA ==
  <<"M","e","s","s","a","g","e"," ","r","e","c_cedilla","u"," ","d","e"," ">>
DefaultReplyB ==
  <<"!"," ","J","e"," ","s","u","i","s"," ">>
DefaultReplyC ==
  <<","," ","c","o","n","t","e","n","t"," ","d","e"," ","d","i","s","c","u","t","e","r"," ","a","v",
  "e","c"," ","t","o","i"," ","s","u","r"," ","C","l","a","w","L","i","n","k"," ","emoji_link">>
OwnerName ==
  <<"m","y"," ","h","u","m","a","n">>
IdentityMarkers ==
  { <<"q","u","i"," ","e","s">>,
    <<"t","u"," ","e","s">>,
    <<"w","h","o"," ","a","r","e">>,
    <<"i","a">>,
    <<"h","u","m","a","i","n">>,
    <<"h","u","m","a","n">>,
    <<"b","o","t">> }
NameText ==
  [n \in {"Al", "Bo", "Cy"} |->
     CASE n = "Al" -> <<"A","l">>
       [] n = "Bo" -> <<"B","o">>
       [] n = "Cy" -> <<"C","y">>]

(* the replies generateReply can build for the agent names of the model *)
Names == {"Al", "Bo", "Cy"}

ReplyTexts ==
  {TxtReplyQuestion, TxtReplyAction, TxtReplyInformation}
  \cup {GreetingSalutA \o NameText[f] \o GreetingSalutB \o NameText[n] \o GreetingSalutC :
          f \in Names, n \in Names}
  \cup {GreetingHeyA \o NameText[f] \o GreetingHeyB \o NameText[n] \o GreetingHeyC :
          f \in Names, n \in Names}
  \cup {GreetingCoucouA \o NameText[f] \o GreetingCoucouB : f \in Names}
  \cup {IdentityA \o NameText[n] \o IdentityB \o OwnerName \o IdentityC : n \in Names}
  \cup {DefaultReplyA \o NameText[f] \o DefaultReplyB \o NameText[n] \o DefaultReplyC :
          f \in Names, n \in Names}

(* every text a message of the model can carry *)
TextUniverse ==
  {TxtHello, TxtHelloShout, TxtThanks, TxtWeather, TxtFyi, TxtPlease, TxtEmpty,
   TxtHelloQuestion, TxtDoIt, TxtHiPlease, TxtOkPlease, TxtThanksQuestion,
   TxtEndNotice, TxtLoopNotice, TxtEndSessionControl} \cup ReplyTexts

(* createHash('md5').update(n).digest('hex').substring(0, 8): a function  *)
(* of the normalized text alone; the digest of a text of the model is the *)
(* rank of its normalized form in a fixed enumeration of the normalized   *)
(* forms (no two normalized forms of the model share a digest).           *)
NormalForms == {normalize(t) : t \in TextUniverse}

RECURSIVE enumerate(_)
enumerate(S) ==
  IF S = {} THEN <<>>
  ELSE LET x == CHOOSE y \in S : TRUE IN <<x>> \o enumerate(S \ {x})

NormalFormList == enumerate(NormalForms)

md5hex8(n) == CHOOSE i \in 1..Len(NormalFormList) : NormalFormList[i] = n

hashMessage(text) == md5hex8(normalize(text))

(* hashMessage and classifyIntent tabulated over the texts of the model *)
hashMessageTable == [t \in TextUniverse |-> hashMessage(t)]
classifyIntentTable == [t \in TextUniverse |-> classifyIntent(t)]

(* ---------------------------------------------------------------------- *)
(* Conversation store (conversations.json of one agent): a function from  *)
(* the peer ids that have a record to their conversation record.  The     *)
(* random id and createdAt of a record are never read and are left out.   *)
(* ---------------------------------------------------------------------- *)
EmptyStore == [p \in {} |-> 0]

newConversation(peerId) ==
  [peerId |-> peerId, turn |-> 0, lastSpeaker |-> "null", lastMessageTime |-> 0,
   messageHashes |-> <<>>, active |-> TRUE]

(* the store as getConversation(peerId) leaves it *)
getConversationStore(data, peerId) ==
  IF peerId \in DOMAIN data THEN data
  ELSE [q \in DOMAIN data \cup {peerId} |->
          IF q = peerId THEN newConversation(peerId) ELSE data[q]]

(* the record getConversation(peerId) returns *)
getConversation(data, peerId) == getConversationStore(data, peerId)[peerId]

(* Object.assign(target, updates) *)
assign(target, updates) ==
  [f \in DOMAIN target \cup DOMAIN updates |->
     IF f \in DOMAIN updates THEN updates[f] ELSE target[f]]

(* updateConversation that writes the updates onto a newly created record *)
updateConversationReplace(data, peerId, updates) ==
  IF peerId \in DOMAIN data
  THEN [data EXCEPT ![peerId] = assign(newConversation(peerId), updates)]
  ELSE data

(* updateConversation that creates the record it does not find *)
updateConversationUpsert(data, peerId, updates) ==
  [q \in DOMAIN data \cup {peerId} |->
     IF q # peerId THEN data[q]
     ELSE assign(IF peerId \in DOMAIN data THEN data[peerId] ELSE newConversation(peerId),
                 updates)]

(* the store as updateConversation(peerId, updates) leaves it *)
updateConversation(data, peerId, updates) ==
  IF peerId \in DOMAIN data
  THEN [data EXCEPT ![peerId] = assign(data[peerId], updates)]
  ELSE data

(* array.slice(-n) *)
sliceLast(s, n) == IF Len(s) <= n THEN s ELSE SubSeq(s, Len(s) - n + 1, Len(s))

(* message.body?.text is truthy *)
hasText(message) == message.body.text # None /\ message.body.text[1] # <<>>

textOf(message) == message.body.text[1]

(* recordSentMessage/recordReceivedMessage with the increment left out *)
recordMessageSameTurn(data, peerId, message, now, speaker) ==
  LET d1 == getConversationStore(data, peerId)
      conv == d1[peerId]
      updates ==
        IF hasText(message)
        THEN [turn |-> conv.turn, lastSpeaker |-> speaker, lastMessageTime |-> now,
              messageHashes |->
                Append(sliceLast(conv.messageHashes, HashWindow), hashMessageTable[textOf(message)])]
        ELSE [turn |-> conv.turn, lastSpeaker |-> speaker, lastMessageTime |-> now]
  IN updateConversation(d1, peerId, updates)

recordMessage(data, peerId, message, now, speaker) ==
  LET d1 == getConversationStore(data, peerId)
      conv == d1[peerId]
      base == [turn |-> conv.turn + 1, lastSpeaker |-> speaker, lastMessageTime |-> now]
      updates ==
        IF hasText(message)
        THEN [turn |-> conv.turn + 1, lastSpeaker |-> speaker, lastMessageTime |-> now,
              messageHashes |->
                Append(sliceLast(conv.messageHashes, HashWindow), hashMessageTable[textOf(message)])]
        ELSE base
  IN updateConversation(d1, peerId, updates)

(* the updates recordSentMessage/recordReceivedMessage compute from the    *)
(* record getConversation returned                                        *)
recordUpdates(conv, message, now, speaker) ==
  IF hasText(message)
  THEN [turn |-> conv.turn + 1, lastSpeaker |-> speaker, lastMessageTime |-> now,
        messageHashes |->
          Append(sliceLast(conv.messageHashes, HashWindow), hashMessageTable[textOf(message)])]
  ELSE [turn |-> conv.turn + 1, lastSpeaker |-> speaker, lastMessageTime |-> now]

recordSentMessage(data, peerId, message, now) ==
  recordMessage(data, peerId, message, now, "self")

recordReceivedMessage(data, peerId, message, now) ==
  recordMessage(data, peerId, message, now, "peer")

(* resetConversation that discards every record *)
resetConversationAll(data, peerId) == EmptyStore

resetConversation(data, peerId) == [q \in DOMAIN data \ {peerId} |-> data[q]]

(* an end of conversation that is not written to the store *)
endConversationUnsaved(data, peerId) == data

endConversation(data, peerId) == updateConversation(data, peerId, [active |-> FALSE])

(* ---------------------------------------------------------------------- *)
(* shouldReply(message, conversation): the verdict, and the store after   *)
(* ---------------------------------------------------------------------- *)
(* a verdict that asks for an acknowledgement whenever it holds back the reply *)
VerdictAcknowledged(reply, reason, intent) ==
  [reply |-> reply, reason |-> reason, intent |-> intent, sendEndSession |-> FALSE,
   sendLoopSignal |-> FALSE, sendAck |-> ~reply, waitMs |-> None]

Verdict(reply, reason, intent) ==
  [reply |-> reply, reason |-> reason, intent |-> intent, sendEndSession |-> FALSE,
   sendLoopSignal |-> FALSE, sendAck |-> FALSE, waitMs |-> None]

similarCount(message, conversation) ==
  LET hash == hashMessageTable[textOf(message)]
      recentHashes == sliceLast(conversation.messageHashes, SimilarityWindow)
  IN Cardinality({i \in 1..Len(recentHashes) : recentHashes[i] = hash})

(* ttl !== undefined && ttl <= 0 *)
ttlExpiredStrict(message) == message.ttl # None /\ message.ttl[1] < 0
ttlExpired(message) == message.ttl # None /\ message.ttl[1] <= 0

(* !conversation.active *)
notActiveUnchecked(conversation) == FALSE
notActive(conversation) == ~conversation.active

(* conversation.turn >= DEFAULTS.maxTurns *)
maxTurnsReachedStrict(conversation) == conversation.turn > maxTurns
maxTurnsReached(conversation) == conversation.turn >= maxTurns

(* waitMs: DEFAULTS.cooldownMs - timeSinceLast *)
waitMsFull(timeSinceLast) == cooldownMs
waitMs(timeSinceLast) == cooldownMs - timeSinceLast

(* shouldReply with the type checks placed after the conversation checks *)
shouldReplyLateTypeCheck(message, conversation, now) ==
  LET timeSinceLast == now - conversation.lastMessageTime
      intent == IF hasText(message) THEN classifyIntentTable[textOf(message)] ELSE INFORMATION
  IN IF notActive(conversation) THEN Verdict(FALSE, "conversation_inactive", undefined)
     ELSE IF ttlExpired(message) THEN Verdict(FALSE, "ttl_expired", undefined)
     ELSE IF message.expectReply = Some(FALSE)
          THEN Verdict(FALSE, "no_reply_expected", undefined)
     ELSE IF maxTurnsReached(conversation)
          THEN [Verdict(FALSE, "max_turns_reached", undefined) EXCEPT !.sendEndSession = TRUE]
     ELSE IF message.type = ACK THEN Verdict(FALSE, "ack_message", undefined)
     ELSE IF message.type = CONTROL THEN
       IF message.body.signal = END_SESSION THEN Verdict(FALSE, "session_ended", undefined)
       ELSE IF message.body.signal = LOOP_DETECTED
            THEN Verdict(FALSE, "loop_detected_by_peer", undefined)
       ELSE Verdict(FALSE, "control_message", undefined)
     ELSE IF timeSinceLast < cooldownMs
          THEN [Verdict(FALSE, "cooldown", undefined) EXCEPT
                  !.waitMs = Some(waitMs(timeSinceLast))]
     ELSE IF hasText(message) /\ similarCount(message, conversation) >= similarityThreshold
          THEN [Verdict(FALSE, "loop_detected", undefined) EXCEPT !.sendLoopSignal = TRUE]
     ELSE IF intent = CONFIRMATION \/ intent = NOISE
          THEN [Verdict(FALSE, "no_action_needed", undefined) EXCEPT !.sendAck = TRUE]
     ELSE Verdict(TRUE, undefined, intent)

(* a verdict that holds back the reply on noise only *)
noActionNeededNoiseOnly(intent) == intent = NOISE

(* intent === Intent.CONFIRMATION || intent === Intent.NOISE *)
noActionNeeded(intent) == intent = CONFIRMATION \/ intent = NOISE

shouldReply(message, conversation, now) ==
  LET timeSinceLast == now - conversation.lastMessageTime
      intent == IF hasText(message) THEN classifyIntentTable[textOf(message)] ELSE INFORMATION
  IN IF message.type = ACK THEN Verdict(FALSE, "ack_message", undefined)
     ELSE IF message.type = CONTROL THEN
       IF message.body.signal = END_SESSION THEN Verdict(FALSE, "session_ended", undefined)
       ELSE IF message.body.signal = LOOP_DETECTED
            THEN Verdict(FALSE, "loop_detected_by_peer", undefined)
       ELSE Verdict(FALSE, "control_message", undefined)
     ELSE IF notActive(conversation) THEN Verdict(FALSE, "conversation_inactive", undefined)
     ELSE IF ttlExpired(message) THEN Verdict(FALSE, "ttl_expired", undefined)
     ELSE IF message.expectReply = Some(FALSE)
          THEN Verdict(FALSE, "no_reply_expected", undefined)
     ELSE IF maxTurnsReached(conversation)
          THEN [Verdict(FALSE, "max_turns_reached", undefined) EXCEPT !.sendEndSession = TRUE]
     ELSE IF timeSinceLast < cooldownMs
          THEN [Verdict(FALSE, "cooldown", undefined) EXCEPT
                  !.waitMs = Some(waitMs(timeSinceLast))]
     ELSE IF hasText(message) /\ similarCount(message, conversation) >= similarityThreshold
          THEN [Verdict(FALSE, "loop_detected", undefined) EXCEPT !.sendLoopSignal = TRUE]
     ELSE IF noActionNeeded(intent)
          THEN [Verdict(FALSE, "no_action_needed", undefined) EXCEPT !.sendAck = TRUE]
     ELSE Verdict(TRUE, undefined, intent)

(* shouldReply that leaves the store alone on every envelope *)
shouldReplyStoreUntouched(data, message, conversation) == data

(* the store after shouldReply(message, conversation) *)
shouldReplyStore(data, message, conversation) ==
  IF message.type = CONTROL /\ message.body.signal = END_SESSION
  THEN updateConversation(data, conversation.peerId, [active |-> FALSE])
  ELSE data

(* ---------------------------------------------------------------------- *)
(* State                                                                  *)
(* ---------------------------------------------------------------------- *)
VARIABLES
  clock,      \* Date.now()
  convs,      \* per agent, the content of its conversations.json
  lastOp,     \* the protocol call just made: [op, agent, peer]
  sentRun,    \* per agent and peer: recordSentMessage calls since the record was
              \* created, or -1 once another call has recorded on it
  lastEval,   \* the shouldReply call just made: arguments, clock and verdict
  inMsg,      \* envelope under evaluation (decision specification)
  inConv,     \* conversation snapshot under evaluation (decision specification)
  inbox,      \* per agent, the messages the relay holds for it: [from, text]
  batch,      \* per agent, the rest of check.messages in a running processAndReply
  autoSent,   \* per agent, messages sent so far by processAndReply
  injected,   \* messages sent so far by hand (handler.js send)
  returned,   \* the call of a pure function just made: [call, input, output]
  pendingTasks, \* tasks.js pendingTasks: task id -> the wait whose resolve it holds
  waits,      \* per wait: its task id, timer, promise state, resolve/reject calls
  responses,  \* task_response messages processed so far
  workers,    \* per worker process: position in recordReceivedMessage, loaded data
  completed,  \* per peer, recordReceivedMessage calls the workers have completed
  identities, \* per agent, the content of its identity.json
  friends,    \* per agent, the friends array of its friends.json
  groupRelay, \* the messages the relay holds for the group, oldest first
  files,      \* the agent's presence, profile, webhook and cache files
  taskHandlers \* tasks.js taskHandlers: the task names that have a handler

vars ==
  <<clock, convs, lastOp, sentRun, lastEval, inMsg, inConv, inbox, batch, autoSent, injected,
    returned, pendingTasks, waits, responses, workers, completed,
    identities, friends, groupRelay, files, taskHandlers>>

relayVars == <<inbox, batch, autoSent, injected>>

peerVars == <<identities, friends, groupRelay, files, taskHandlers>>

sideVars == <<returned, pendingTasks, waits, responses, workers, completed, peerVars>>

Agents == {"Al", "Bo"}
Self == "Al"
Peers == {"Bo", "Cy"}

Op(op, a, p) == [op |-> op, agent |-> a, peer |-> p]
NoOp == Op("none", Self, "Bo")

NoMessage ==
  [type |-> MSG, expectReply |-> None, ttl |-> None, body |-> [text |-> None, signal |-> undefined]]

NoEval ==
  [done |-> FALSE, agent |-> Self, peer |-> "Bo", message |-> NoMessage,
   conversation |-> newConversation("Bo"), now |-> 0, storedConv |-> None, run |-> 0,
   verdict |-> Verdict(FALSE, undefined, undefined)]

(* the record of one shouldReply(message, conversation) call by agent a,  *)
(* made while the agent's store is data                                   *)
EvaluationOn(a, message, conversation, data) ==
  [done |-> TRUE, agent |-> a, peer |-> conversation.peerId, message |-> message,
   conversation |-> conversation, now |-> clock,
   storedConv |-> IF conversation.peerId \in DOMAIN data
                  THEN Some(data[conversation.peerId]) ELSE None,
   run |-> sentRun[a][conversation.peerId],
   verdict |-> shouldReply(message, conversation, clock)]

Evaluation(a, message, conversation) == EvaluationOn(a, message, conversation, convs[a])

(* no pure function called yet *)
NoReturn == [call |-> "none", input |-> <<>>, output |-> <<>>]

Return(call, input, output) == [call |-> call, input |-> input, output |-> output]

(* tasks.js: the waits a program makes and the task ids it waits on *)
WaitIds == {"w1", "w2"}
TaskIds == {"t1", "t2"}

(* a waitForTaskResponse call not made yet *)
NoWait ==
  [taskId |-> "none", timer |-> "none", promise |-> "none", resolveCalls |-> 0,
   rejectCalls |-> 0, alone |-> TRUE]

(* processes that record received messages on the same conversations.json *)
Workers == {"k1", "k2"}

IdleWorker == [pc |-> "idle", peer |-> "none", data |-> EmptyStore, conv |-> None]

(* ---------------------------------------------------------------------- *)
(* Keys: X25519 as exponentiation in a small prime field, Ed25519 public  *)
(* keys as the same point in another form, base64 as a tagged value       *)
(* ---------------------------------------------------------------------- *)
DhPrime == 23
DhBase == 5

RECURSIVE power(_, _)
power(b, n) == IF n = 0 THEN 1 ELSE (b * power(b, n - 1)) % DhPrime

(* a derivation that is not symmetric in the two key pairs *)
scalarMultShifted(n, point) == (power(point, n) + n) % DhPrime

(* nacl.scalarMult(n, p) *)
scalarMult(n, point) == power(point, n)

(* util.encodeBase64 / util.decodeBase64 *)
encodeBase64(bytes) == <<"base64", bytes>>
decodeBase64(text) == text[2]

(* the Ed25519 public key of a signing secret, and ed2curve's conversion  *)
(* of it to the X25519 public key of the same secret                      *)
ed25519Public(secret) == DhPrime + scalarMult(secret, DhBase)
convertPublicKey(ed25519Pub) == ed25519Pub - DhPrime

(* identity.json: a signing pair and an exchange pair *)
generateIdentity(signingSecret, exchangeSecret) ==
  [publicKey |-> encodeBase64(ed25519Public(signingSecret)),
   secretKey |-> encodeBase64(signingSecret),
   x25519PublicKey |-> encodeBase64(scalarMult(exchangeSecret, DhBase)),
   x25519SecretKey |-> encodeBase64(exchangeSecret)]

DefaultIdentities ==
  [n \in Names |-> CASE n = "Al" -> generateIdentity(2, 3)
                     [] n = "Bo" -> generateIdentity(4, 6)
                     [] OTHER -> generateIdentity(7, 7)]

FileNames ==
  {"presence.json", "friend_presence_cache.json", "profile.json", "directory_cache.json",
   "webhook.json"}

NoFiles == [f \in FileNames |-> None]

SideInit ==
  /\ returned = NoReturn
  /\ pendingTasks = EmptyStore
  /\ waits = [w \in WaitIds |-> NoWait]
  /\ responses = 0
  /\ workers = [k \in Workers |-> IdleWorker]
  /\ completed = [p \in Peers |-> 0]
  /\ identities = DefaultIdentities
  /\ friends = [a \in Agents |-> <<>>]
  /\ groupRelay = <<>>
  /\ files = NoFiles
  /\ taskHandlers = {}

(* ---------------------------------------------------------------------- *)
(* Decision specification: shouldReply applied to one envelope and one    *)
(* conversation snapshot drawn from bounded sets                          *)
(* ---------------------------------------------------------------------- *)
DecideTexts == {TxtHello, TxtHelloShout, TxtThanks, TxtFyi}
DecideSignals == {undefined, END_SESSION, LOOP_DETECTED, "pause"}
DecideTtls == {None, Some(-1), Some(0), Some(1)}
DecideExpect == {None, Some(TRUE), Some(FALSE)}

TextBodies == {[text |-> t, signal |-> undefined] : t \in {None} \cup {Some(x) : x \in DecideTexts}}
SignalBodies == {[text |-> None, signal |-> s] : s \in DecideSignals}

Envelopes ==
  {[type |-> ty, expectReply |-> e, ttl |-> l, body |-> b] :
     ty \in {MSG, ACK}, e \in DecideExpect, l \in DecideTtls, b \in TextBodies}
  \cup
  {[type |-> CONTROL, expectReply |-> e, ttl |-> l, body |-> b] :
     e \in DecideExpect, l \in DecideTtls, b \in SignalBodies}

repeat(x, n) == [i \in 1..n |-> x]

DecideT0 == 10000
DecideTurns == {0, maxTurns - 1, maxTurns, maxTurns + 1}
DecideLastTimes == {0, DecideT0, DecideT0 + cooldownMs + 1}
DecideClocks == {DecideT0, DecideT0 + cooldownMs - 1, DecideT0 + cooldownMs}
DecideWindows ==
  { <<>>,
    repeat(hashMessageTable[TxtHello], similarityThreshold - 1),
    repeat(hashMessageTable[TxtHello], similarityThreshold),
    repeat(hashMessageTable[TxtHello], similarityThreshold)
      \o repeat(hashMessageTable[TxtFyi], SimilarityWindow - 1),
    repeat(hashMessageTable[TxtThanks], similarityThreshold)
      \o repeat(hashMessageTable[TxtFyi], SimilarityWindow - similarityThreshold) }

Snapshots ==
  {[peerId |-> "Bo", turn |-> t, lastSpeaker |-> "peer", lastMessageTime |-> l,
    messageHashes |-> w, active |-> a] :
     t \in DecideTurns, l \in DecideLastTimes, w \in DecideWindows, a \in BOOLEAN}

DecideInit ==
  /\ inMsg \in Envelopes
  /\ inConv \in Snapshots
  /\ clock \in DecideClocks
  /\ convs \in {[a \in Agents |-> EmptyStore],
                [a \in Agents |-> IF a = Self THEN (inConv.peerId :> inConv) ELSE EmptyStore]}
  /\ lastOp = NoOp
  /\ sentRun = [a \in Agents |-> [p \in Agents \cup Peers |-> 0]]
  /\ lastEval = NoEval
  /\ inbox = [a \in Agents |-> <<>>]
  /\ batch = [a \in Agents |-> <<>>]
  /\ autoSent = [a \in Agents |-> 0]
  /\ injected = 0
  /\ SideInit

Decide ==
  /\ ~lastEval.done
  /\ lastEval' = Evaluation(Self, inMsg, inConv)
  /\ convs' = [convs EXCEPT ![Self] = shouldReplyStore(@, inMsg, inConv)]
  /\ lastOp' = Op("shouldReply", Self, inConv.peerId)
  /\ UNCHANGED <<clock, sentRun, inMsg, inConv>>
  /\ UNCHANGED relayVars
  /\ UNCHANGED sideVars

DecideNext == Decide

SpecDecide == DecideInit /\ [][DecideNext]_vars

(* ---------------------------------------------------------------------- *)
(* Properties of the decision function                                    *)
(* ---------------------------------------------------------------------- *)
ControlReasons == {"session_ended", "loop_detected_by_peer", "control_message"}

(* the precedence list: does rule i match the evaluated envelope and snapshot *)
RuleMatches(i, e) ==
  LET m == e.message
      c == e.conversation
  IN CASE i = 1 -> m.type = ACK
       [] i = 2 -> m.type = CONTROL
       [] i = 3 -> ~c.active
       [] i = 4 -> m.ttl # None /\ m.ttl[1] <= 0
       [] i = 5 -> m.expectReply = Some(FALSE)
       [] i = 6 -> c.turn >= maxTurns
       [] i = 7 -> e.now - c.lastMessageTime < cooldownMs
       [] i = 8 -> hasText(m) /\ similarCount(m, c) >= similarityThreshold
       [] i = 10 -> hasText(m) /\ classifyIntentTable[textOf(m)] \in {CONFIRMATION, NOISE}
       [] i = 11 -> TRUE
       [] OTHER -> FALSE

RuleReasons(i) ==
  CASE i = 1 -> {"ack_message"}
    [] i = 2 -> ControlReasons
    [] i = 3 -> {"conversation_inactive"}
    [] i = 4 -> {"ttl_expired"}
    [] i = 5 -> {"no_reply_expected"}
    [] i = 6 -> {"max_turns_reached"}
    [] i = 7 -> {"cooldown"}
    [] i = 8 -> {"loop_detected"}
    [] i = 10 -> {"no_action_needed"}
    [] OTHER -> {undefined}

FirstRule(e) == CHOOSE i \in 1..11 : RuleMatches(i, e) /\ \A j \in 1..(i - 1) : ~RuleMatches(j, e)

(* C2: every verdict is the verdict of the first rule of the precedence   *)
(* list that matches; a later rule never overrides an earlier one.        *)
C2_FirstMatchWins ==
  lastEval.done =>
    /\ lastEval.verdict.reason \in RuleReasons(FirstRule(lastEval))
    /\ lastEval.verdict.reply = (FirstRule(lastEval) = 11)

(* a structural rule (max turns) decides although the content rule 8 matches too *)
C2_Witness ==
  /\ lastEval.done
  /\ FirstRule(lastEval) = 6
  /\ RuleMatches(7, lastEval)
  /\ RuleMatches(8, lastEval)
  /\ lastEval.verdict.reason = "max_turns_reached"

(* C3: an ACK envelope yields reply=false, reason ack_message and no flag, *)
(* whatever its other fields and whatever the conversation snapshot.       *)
C3_AckNeverReplied ==
  (lastEval.done /\ lastEval.message.type = ACK) =>
    lastEval.verdict = Verdict(FALSE, "ack_message", undefined)

C3_Witness ==
  /\ lastEval.done
  /\ lastEval.message.type = ACK
  /\ lastEval.message.expectReply = Some(TRUE)
  /\ lastEval.message.ttl = Some(1)
  /\ hasText(lastEval.message)
  /\ lastEval.conversation.active
  /\ lastEval.conversation.turn >= maxTurns
  /\ lastEval.verdict.reason = "ack_message"

(* C9 as stated: on reason cooldown, waitMs = cooldownMs - elapsed and    *)
(* 0 < waitMs <= 5000 for every clock and every stored lastMessageTime.   *)
C9_WaitWithinCooldown ==
  (lastEval.done /\ lastEval.verdict.reason = "cooldown") =>
    /\ lastEval.verdict.waitMs =
         Some(cooldownMs - (lastEval.now - lastEval.conversation.lastMessageTime))
    /\ lastEval.verdict.waitMs[1] > 0
    /\ lastEval.verdict.waitMs[1] <= 5000

(* C9 amended: the same, when the clock is not behind lastMessageTime.    *)
C9_WaitWithinCooldownMonotonic ==
  (/\ lastEval.done
   /\ lastEval.verdict.reason = "cooldown"
   /\ lastEval.now >= lastEval.conversation.lastMessageTime) =>
    /\ lastEval.verdict.waitMs =
         Some(cooldownMs - (lastEval.now - lastEval.conversation.lastMessageTime))
    /\ lastEval.verdict.waitMs[1] > 0
    /\ lastEval.verdict.waitMs[1] <= 5000

C9_Witness ==
  /\ lastEval.done
  /\ lastEval.verdict.reason = "cooldown"
  /\ lastEval.now - lastEval.conversation.lastMessageTime = cooldownMs - 1
  /\ lastEval.verdict.waitMs = Some(1)

(* C10: a MSG envelope with ttl <= 0 on an active conversation yields     *)
(* reply=false, reason ttl_expired, whatever the other inputs.            *)
C10_TtlExpired ==
  (/\ lastEval.done
   /\ lastEval.message.type = MSG
   /\ lastEval.message.ttl # None
   /\ lastEval.message.ttl[1] <= 0
   /\ lastEval.conversation.active) =>
    /\ lastEval.verdict.reply = FALSE
    /\ lastEval.verdict.reason = "ttl_expired"

C10_Witness ==
  /\ lastEval.done
  /\ lastEval.message.type = MSG
  /\ lastEval.message.ttl = Some(0)
  /\ lastEval.message.expectReply = Some(TRUE)
  /\ lastEval.message.body.text = Some(TxtHello)
  /\ lastEval.conversation.active
  /\ lastEval.conversation.turn = 0
  /\ lastEval.now - lastEval.conversation.lastMessageTime >= cooldownMs
  /\ lastEval.verdict.reason = "ttl_expired"

(* C11: a CONTROL envelope never yields a reply; end_session gives reason  *)
(* session_ended and leaves the peer's stored record with active=false    *)
(* and nothing else changed; loop_detected gives loop_detected_by_peer,   *)
(* any other signal control_message, and both leave the store unchanged.  *)
C11_ControlNeverReplied ==
  (lastEval.done /\ lastEval.message.type = CONTROL) =>
    LET signal == lastEval.message.body.signal
        p == lastEval.peer
        before == lastEval.storedConv
        after == IF p \in DOMAIN convs[Self] THEN Some(convs[Self][p]) ELSE None
    IN /\ lastEval.verdict.reply = FALSE
       /\ ~lastEval.verdict.sendEndSession
       /\ ~lastEval.verdict.sendLoopSignal
       /\ ~lastEval.verdict.sendAck
       /\ DOMAIN convs[Self] \subseteq {p}
       /\ signal = END_SESSION =>
            /\ lastEval.verdict.reason = "session_ended"
            /\ before # None => after = Some([before[1] EXCEPT !.active = FALSE])
            /\ before = None => after = None
       /\ signal = LOOP_DETECTED =>
            /\ lastEval.verdict.reason = "loop_detected_by_peer"
            /\ after = before
       /\ signal \notin {END_SESSION, LOOP_DETECTED} =>
            /\ lastEval.verdict.reason = "control_message"
            /\ after = before

C11_Witness ==
  /\ lastEval.done
  /\ lastEval.message.type = CONTROL
  /\ lastEval.message.body.signal = END_SESSION
  /\ lastEval.storedConv # None
  /\ lastEval.storedConv[1].active
  /\ lastEval.storedConv[1].turn = maxTurns
  /\ lastEval.verdict.reason = "session_ended"
  /\ ~convs[Self][lastEval.peer].active
  /\ convs[Self][lastEval.peer].turn = maxTurns

(* ---------------------------------------------------------------------- *)
(* Protocol calls of one agent on its conversation store                  *)
(* ---------------------------------------------------------------------- *)
Message(type, expectReply, ttl, text, signal) ==
  [type |-> type, expectReply |-> expectReply, ttl |-> ttl,
   body |-> [text |-> text, signal |-> signal]]

(* a wrapping that reads a serialized control envelope as the envelope *)
TextMessageParsed(text) ==
  IF text = Some(TxtEndSessionControl)
  THEN Message(CONTROL, Some(FALSE), Some(1), None, END_SESSION)
  ELSE Message(MSG, Some(TRUE), Some(maxTurns), text, undefined)

TextMessage(text) == Message(MSG, Some(TRUE), Some(maxTurns), text, undefined)

turnOf(a, p) == IF p \in DOMAIN convs[a] THEN convs[a][p].turn ELSE 0

(* sentRun after a record call on (a, p) *)
runAfterRecord(a, p, sent) ==
  LET cur == IF p \in DOMAIN convs[a] THEN sentRun[a][p] ELSE 0
  IN IF sent /\ cur >= 0 THEN cur + 1 ELSE -1

ApiInit ==
  /\ clock = DecideT0
  /\ convs = [a \in Agents |-> EmptyStore]
  /\ lastOp = NoOp
  /\ sentRun = [a \in Agents |-> [p \in Agents \cup Peers |-> 0]]
  /\ lastEval = NoEval
  /\ inMsg = NoMessage
  /\ inConv = newConversation("Bo")
  /\ inbox = [a \in Agents |-> <<>>]
  /\ batch = [a \in Agents |-> <<>>]
  /\ autoSent = [a \in Agents |-> 0]
  /\ injected = 0
  /\ SideInit

GetConversation(a, p) ==
  /\ convs' = [convs EXCEPT ![a] = getConversationStore(@, p)]
  /\ lastOp' = Op("getConversation", a, p)
  /\ lastEval' = NoEval
  /\ UNCHANGED <<clock, sentRun, inMsg, inConv>>
  /\ UNCHANGED relayVars
  /\ UNCHANGED sideVars

RecordSentMessage(a, p, message, turnBound) ==
  /\ turnOf(a, p) < turnBound
  /\ convs' = [convs EXCEPT ![a] = recordSentMessage(@, p, message, clock)]
  /\ sentRun' = [sentRun EXCEPT ![a][p] = runAfterRecord(a, p, TRUE)]
  /\ lastOp' = Op("recordSentMessage", a, p)
  /\ lastEval' = NoEval
  /\ UNCHANGED <<clock, inMsg, inConv>>
  /\ UNCHANGED relayVars
  /\ UNCHANGED sideVars

RecordReceivedMessage(a, p, message, turnBound) ==
  /\ turnOf(a, p) < turnBound
  /\ convs' = [convs EXCEPT ![a] = recordReceivedMessage(@, p, message, clock)]
  /\ sentRun' = [sentRun EXCEPT ![a][p] = runAfterRecord(a, p, FALSE)]
  /\ lastOp' = Op("recordReceivedMessage", a, p)
  /\ lastEval' = NoEval
  /\ UNCHANGED <<clock, inMsg, inConv>>
  /\ UNCHANGED relayVars
  /\ UNCHANGED sideVars

ResetConversation(a, p) ==
  /\ convs' = [convs EXCEPT ![a] = resetConversation(@, p)]
  /\ sentRun' = [sentRun EXCEPT ![a][p] = 0]
  /\ lastOp' = Op("resetConversation", a, p)
  /\ lastEval' = NoEval
  /\ UNCHANGED <<clock, inMsg, inConv>>
  /\ UNCHANGED relayVars
  /\ UNCHANGED sideVars

EndConversation(a, p) ==
  /\ convs' = [convs EXCEPT ![a] = endConversation(@, p)]
  /\ lastOp' = Op("endConversation", a, p)
  /\ lastEval' = NoEval
  /\ UNCHANGED <<clock, sentRun, inMsg, inConv>>
  /\ UNCHANGED relayVars
  /\ UNCHANGED sideVars

(* shouldReply(message, getConversation(p)) on a conversation the caller has read *)
ShouldReply(a, p, message) ==
  /\ p \in DOMAIN convs[a]
  /\ lastEval' = Evaluation(a, message, convs[a][p])
  /\ convs' = [convs EXCEPT ![a] = shouldReplyStore(@, message, convs[a][p])]
  /\ lastOp' = Op("shouldReply", a, p)
  /\ UNCHANGED <<clock, sentRun, inMsg, inConv>>
  /\ UNCHANGED relayVars
  /\ UNCHANGED sideVars

(* time passes *)
Tick(maxClock) ==
  /\ clock < maxClock
  /\ clock' = clock + cooldownMs
  /\ lastOp' = Op("tick", Self, "Bo")
  /\ lastEval' = NoEval
  /\ UNCHANGED <<convs, sentRun, inMsg, inConv>>
  /\ UNCHANGED relayVars
  /\ UNCHANGED sideVars

(* ---------------------------------------------------------------------- *)
(* Specification of the protocol calls, two peers, short conversations    *)
(* ---------------------------------------------------------------------- *)
ApiMaxTurn == 2
ApiClockEnd == DecideT0 + cooldownMs

ApiRecorded == {TextMessage(None), TextMessage(Some(TxtHello))}

ApiEnvelopes ==
  { TextMessage(Some(TxtHello)),
    Message(MSG, Some(TRUE), Some(0), Some(TxtHello), undefined),
    Message(ACK, Some(FALSE), Some(0), None, undefined),
    Message(CONTROL, Some(FALSE), Some(0), None, END_SESSION),
    Message(CONTROL, Some(FALSE), Some(0), None, LOOP_DETECTED) }

Next ==
  \/ \E p \in Peers : GetConversation(Self, p)
  \/ \E p \in Peers, m \in ApiRecorded : RecordSentMessage(Self, p, m, ApiMaxTurn)
  \/ \E p \in Peers, m \in ApiRecorded : RecordReceivedMessage(Self, p, m, ApiMaxTurn)
  \/ \E p \in Peers : ResetConversation(Self, p)
  \/ \E p \in Peers : EndConversation(Self, p)
  \/ \E p \in Peers, m \in ApiEnvelopes : ShouldReply(Self, p, m)
  \/ Tick(ApiClockEnd)

Spec == ApiInit /\ [][Next]_vars

(* ---------------------------------------------------------------------- *)
(* Specification of one long conversation: one peer, every recorded       *)
(* message carries a text, taken in turn from three texts                 *)
(* ---------------------------------------------------------------------- *)
LongMaxTurn == 22
LongPeer == "Bo"
LongTexts == <<TxtHello, TxtFyi, TxtPlease>>

LongMessage == TextMessage(Some(LongTexts[(turnOf(Self, LongPeer) % 3) + 1]))

LongEnvelopes ==
  {Message(MSG, e, l, t, undefined) :
     e \in {None, Some(TRUE)}, l \in {None, Some(1)},
     t \in {None, Some(TxtWeather), Some(TxtThanks)}}
  \cup {Message(MSG, Some(FALSE), Some(1), Some(TxtWeather), undefined),
        Message(MSG, Some(TRUE), Some(0), Some(TxtWeather), undefined)}

LongNext ==
  \/ GetConversation(Self, LongPeer)
  \/ RecordSentMessage(Self, LongPeer, LongMessage, LongMaxTurn)
  \/ RecordReceivedMessage(Self, LongPeer, LongMessage, LongMaxTurn)
  \/ ResetConversation(Self, LongPeer)
  \/ EndConversation(Self, LongPeer)
  \/ \E m \in LongEnvelopes : ShouldReply(Self, LongPeer, m)
  \/ Tick(ApiClockEnd)

SpecLong == ApiInit /\ [][LongNext]_vars

(* ---------------------------------------------------------------------- *)
(* Properties of the conversation store                                   *)
(* ---------------------------------------------------------------------- *)
isInactive(data, p) == p \in DOMAIN data /\ ~data[p].active

(* C4 as stated: every decision taken on an ended conversation returns    *)
(* reply=false with reason conversation_inactive, for every envelope.     *)
C4_EndedAlwaysInactiveReason ==
  [][\A p \in Peers :
       (isInactive(convs[Self], p) /\ lastOp'.op = "shouldReply" /\ lastOp'.peer = p) =>
          lastEval'.verdict = Verdict(FALSE, "conversation_inactive", undefined)]_vars

(* C4 amended: an ended conversation stays ended until it is reset, and   *)
(* every decision taken on it returns reply=false; the reason is          *)
(* conversation_inactive for a MSG envelope, while ACK and CONTROL        *)
(* envelopes keep the reasons of the two rules that come first.           *)
C4_EndedStaysSilent ==
  [][\A p \in Peers :
       isInactive(convs[Self], p) =>
         /\ \/ lastOp'.op = "resetConversation" /\ lastOp'.peer = p
            \/ isInactive(convs'[Self], p)
         /\ (lastOp'.op = "shouldReply" /\ lastOp'.peer = p) =>
              /\ lastEval'.verdict.reply = FALSE
              /\ lastEval'.message.type = MSG =>
                   lastEval'.verdict = Verdict(FALSE, "conversation_inactive", undefined)
              /\ lastEval'.message.type = ACK => lastEval'.verdict.reason = "ack_message"
              /\ lastEval'.message.type = CONTROL =>
                   lastEval'.verdict.reason \in ControlReasons]_vars

C4_Witness ==
  /\ lastOp.op = "shouldReply"
  /\ lastEval.done
  /\ ~lastEval.conversation.active
  /\ lastEval.conversation.turn > 0
  /\ lastEval.message = TextMessage(Some(TxtHello))
  /\ lastEval.now - lastEval.conversation.lastMessageTime >= cooldownMs
  /\ lastEval.verdict.reason = "conversation_inactive"

(* C5: the stored turn goes up by exactly 1 at each recordSentMessage or  *)
(* recordReceivedMessage, is left alone by every other call, and a record *)
(* loses its count only through resetConversation.                        *)
C5_TurnCountsRecords ==
  [][\A p \in Peers :
       LET before == turnOf(Self, p)
           after == IF p \in DOMAIN convs'[Self] THEN convs'[Self][p].turn ELSE 0
           recorded == /\ lastOp'.op \in {"recordSentMessage", "recordReceivedMessage"}
                       /\ lastOp'.peer = p
       IN /\ recorded => (p \in DOMAIN convs'[Self] /\ after = before + 1)
          /\ ~recorded => after <= before
          /\ (~recorded /\ p \in DOMAIN convs[Self] /\ p \in DOMAIN convs'[Self]) =>
               after = before
          /\ (p \in DOMAIN convs[Self] /\ p \notin DOMAIN convs'[Self]) =>
               (lastOp'.op = "resetConversation" /\ lastOp'.peer = p)]_vars

C5_Witness ==
  /\ lastOp.op = "recordReceivedMessage"
  /\ lastOp.peer \in DOMAIN convs[Self]
  /\ convs[Self][lastOp.peer].turn = ApiMaxTurn
  /\ convs[Self][lastOp.peer].lastSpeaker = "peer"
  /\ ~convs[Self][lastOp.peer].active

(* C6: the digest window holds at most 20 entries, and a recorded text    *)
(* is appended after evicting the oldest entry once the window is full.   *)
C6_WindowAtMostTwenty ==
  [][\A p \in DOMAIN convs'[Self] :
       LET old == IF p \in DOMAIN convs[Self] THEN convs[Self][p].messageHashes ELSE <<>>
           new == convs'[Self][p].messageHashes
       IN /\ Len(new) <= 20
          /\ new # old =>
               /\ Len(new) >= 1
               /\ SubSeq(new, 1, Len(new) - 1) = sliceLast(old, 20 - 1)]_vars

(* C7: after 20 successive recordSentMessage calls on a fresh record the  *)
(* turn is 20, and a repliable MSG evaluated then yields reply=false,     *)
(* reason max_turns_reached, sendEndSession=true.                         *)
Repliable(m) ==
  /\ m.type = MSG
  /\ m.ttl = None \/ m.ttl[1] > 0
  /\ m.expectReply # Some(FALSE)

C7_TwentySentThenMaxTurns ==
  /\ \A p \in DOMAIN convs[Self] :
       sentRun[Self][p] >= 0 => convs[Self][p].turn = sentRun[Self][p]
  /\ (/\ lastEval.done
      /\ lastEval.run = 20
      /\ Repliable(lastEval.message)
      /\ lastEval.conversation.active) =>
       /\ lastEval.conversation.turn = 20
       /\ lastEval.verdict =
            [Verdict(FALSE, "max_turns_reached", undefined) EXCEPT !.sendEndSession = TRUE]

C7_Witness ==
  /\ lastEval.done
  /\ lastEval.run = 20
  /\ lastEval.message = Message(MSG, Some(TRUE), Some(1), Some(TxtWeather), undefined)
  /\ lastEval.conversation.active
  /\ lastEval.conversation.lastSpeaker = "self"
  /\ lastEval.now - lastEval.conversation.lastMessageTime >= cooldownMs
  /\ lastEval.verdict.sendEndSession

(* C12: a record with active=false keeps it under getConversation,         *)
(* recordSentMessage, recordReceivedMessage, endConversation and          *)
(* shouldReply; it leaves the store only through resetConversation, and a *)
(* peer without a record gets an active one only through a new access.    *)
C12_InactiveUntilReset ==
  [][\A p \in Peers :
       /\ isInactive(convs[Self], p) =>
            \/ isInactive(convs'[Self], p)
            \/ /\ lastOp'.op = "resetConversation"
               /\ lastOp'.peer = p
               /\ p \notin DOMAIN convs'[Self]
       /\ (p \notin DOMAIN convs[Self] /\ p \in DOMAIN convs'[Self]) =>
            /\ lastOp'.op \in {"getConversation", "recordSentMessage", "recordReceivedMessage"}
            /\ lastOp'.peer = p
            /\ convs'[Self][p].active]_vars

C12_Witness ==
  /\ lastOp.op = "recordSentMessage"
  /\ lastOp.peer \in DOMAIN convs[Self]
  /\ ~convs[Self][lastOp.peer].active
  /\ convs[Self][lastOp.peer].turn = ApiMaxTurn
  /\ convs[Self][lastOp.peer].lastSpeaker = "self"
  /\ convs[Self][lastOp.peer].messageHashes # <<>>

(* C13: resetConversation(p) removes the record of p and leaves every     *)
(* other record as it is; the next getConversation or record call for p   *)
(* starts from a new record (turn 0, no speaker, empty window, active);   *)
(* getConversation on a peer that has a record changes nothing.           *)
C13_ResetDiscardsOneRecord ==
  [][\A p \in Peers :
       LET had == p \in DOMAIN convs[Self]
           others == \A q \in Peers \ {p} :
                       /\ q \in DOMAIN convs'[Self] <=> q \in DOMAIN convs[Self]
                       /\ q \in DOMAIN convs[Self] => convs'[Self][q] = convs[Self][q]
       IN /\ (lastOp'.op = "resetConversation" /\ lastOp'.peer = p) =>
               (p \notin DOMAIN convs'[Self] /\ others)
          /\ (lastOp'.op = "getConversation" /\ lastOp'.peer = p /\ ~had) =>
               /\ p \in DOMAIN convs'[Self]
               /\ convs'[Self][p].turn = 0
               /\ convs'[Self][p].lastSpeaker = "null"
               /\ convs'[Self][p].messageHashes = <<>>
               /\ convs'[Self][p].active
               /\ others
          /\ (lastOp'.op = "getConversation" /\ lastOp'.peer = p /\ had) =>
               convs'[Self] = convs[Self]
          /\ (/\ lastOp'.op \in {"recordSentMessage", "recordReceivedMessage"}
              /\ lastOp'.peer = p
              /\ ~had) =>
               /\ p \in DOMAIN convs'[Self]
               /\ convs'[Self][p].turn = 1
               /\ convs'[Self][p].lastSpeaker =
                    (IF lastOp'.op = "recordSentMessage" THEN "self" ELSE "peer")
               /\ Len(convs'[Self][p].messageHashes) <= 1
               /\ convs'[Self][p].active
               /\ others]_vars

C13_Witness ==
  /\ lastOp.op = "resetConversation"
  /\ lastOp.peer = "Bo"
  /\ "Bo" \notin DOMAIN convs[Self]
  /\ "Cy" \in DOMAIN convs[Self]
  /\ convs[Self]["Cy"].turn = ApiMaxTurn
  /\ ~convs[Self]["Cy"].active

(* generateReply(message, intent, myName, ownerName); pick is the value   *)
(* of Math.floor(Math.random() * 3)                                       *)
generateReply(message, intent, myName, pick) ==
  LET from == NameText[message.from]
      me == NameText[myName]
      lower == toLowerCase(message.text)
      greetings ==
        << GreetingSalutA \o from \o GreetingSalutB \o me \o GreetingSalutC,
           GreetingHeyA \o from \o GreetingHeyB \o me \o GreetingHeyC,
           GreetingCoucouA \o from \o GreetingCoucouB >>
  IN IF intent = GREETING
     THEN [text |-> greetings[pick + 1], expectReply |-> TRUE, ttl |-> 10]
     ELSE IF intent = QUESTION /\ \E w \in IdentityMarkers : includes(lower, w)
     THEN [text |-> IdentityA \o me \o IdentityB \o OwnerName \o IdentityC,
           expectReply |-> TRUE, ttl |-> 8]
     ELSE IF intent = QUESTION
     THEN [text |-> TxtReplyQuestion, expectReply |-> FALSE, ttl |-> 5]
     ELSE IF intent = ACTION_REQUEST
     THEN [text |-> TxtReplyAction, expectReply |-> FALSE, ttl |-> 5]
     ELSE IF intent = INFORMATION
     THEN [text |-> TxtReplyInformation, expectReply |-> FALSE, ttl |-> 3]
     ELSE [text |-> DefaultReplyA \o from \o DefaultReplyB \o me \o DefaultReplyC,
           expectReply |-> FALSE, ttl |-> 5]

(* ---------------------------------------------------------------------- *)
(* Relay (clawbot.js): sendToFriend queues a message for the friend,      *)
(* checkMessages returns and removes the messages queued for the caller   *)
(* ---------------------------------------------------------------------- *)
SendOutcomes == {"ok", "failed", "throws"}

sendToFriend(boxes, from, to, text, outcome, now) ==
  IF outcome = "ok"
  THEN [boxes EXCEPT ![to] = Append(@, [from |-> from, text |-> text, timestamp |-> now])]
  ELSE boxes

(* checkMessages at the start of processAndReply *)
CheckMessages(a) ==
  /\ batch[a] = <<>>
  /\ inbox[a] # <<>>
  /\ batch' = [batch EXCEPT ![a] = inbox[a]]
  /\ inbox' = [inbox EXCEPT ![a] = <<>>]
  /\ lastOp' = Op("checkMessages", a, a)
  /\ lastEval' = NoEval
  /\ UNCHANGED <<clock, convs, sentRun, inMsg, inConv, autoSent, injected>>
  /\ UNCHANGED sideVars

(* a loop that takes the newest message of the batch first *)
nextOfBatchNewest(queue) == queue[Len(queue)]

(* for (const msg of check.messages): the message the next iteration takes *)
nextOfBatch(queue) == Head(queue)

(* one iteration of the for loop of processAndReply on the next message   *)
(* of the batch; outcome is the outcome of the sendToFriend call it makes *)
ProcessMessage(a, outcome, pick, sendBound) ==
  /\ batch[a] # <<>>
  /\ autoSent[a] < sendBound
  /\ LET msg == nextOfBatch(batch[a])
         p == msg.from
         d1 == getConversationStore(convs[a], p)
         conv == d1[p]
         protocolMsg == TextMessage(Some(msg.text))
         d2 == recordReceivedMessage(d1, p, protocolMsg, clock)
         intent == classifyIntentTable[msg.text]
         v == shouldReply(protocolMsg, conv, clock)
         d3 == shouldReplyStore(d2, protocolMsg, conv)
         replyData == generateReply(msg, intent, a, pick)
         sends == v.reply \/ v.sendEndSession \/ v.sendLoopSignal
         text == IF v.reply THEN replyData.text
                 ELSE IF v.sendEndSession THEN TxtEndNotice ELSE TxtLoopNotice
         sent == Message(MSG, Some(replyData.expectReply), Some(replyData.ttl),
                         Some(replyData.text), undefined)
     IN /\ sends \/ (outcome = "ok" /\ pick = 0)
        /\ v.reply \/ pick = 0
        /\ lastEval' = EvaluationOn(a, protocolMsg, conv, d2)
        /\ inbox' = IF sends THEN sendToFriend(inbox, a, p, text, outcome, clock) ELSE inbox
        /\ autoSent' = IF sends /\ outcome = "ok"
                       THEN [autoSent EXCEPT ![a] = @ + 1] ELSE autoSent
        /\ convs' =
             [convs EXCEPT ![a] =
                IF v.reply /\ outcome = "ok" THEN recordSentMessage(d3, p, sent, clock)
                ELSE IF v.sendLoopSignal /\ outcome # "throws" THEN endConversation(d3, p)
                ELSE d3]
        /\ batch' = [batch EXCEPT ![a] =
                       IF sends /\ ~v.reply /\ outcome = "throws" THEN <<>> ELSE Tail(@)]
        /\ sentRun' = [sentRun EXCEPT ![a][p] = -1]
        /\ lastOp' = Op("processAndReply", a, p)
  /\ UNCHANGED <<clock, inMsg, inConv, injected>>

(* the same iteration, the results object it fills left aside *)
HandleMessage(a, outcome, pick, sendBound) ==
  /\ ProcessMessage(a, outcome, pick, sendBound)
  /\ UNCHANGED sideVars

(* checkMessages by an agent that runs processAndReply on a heartbeat:   *)
(* period has passed since the previous heartbeat of the system           *)
CheckMessagesOnHeartbeat(a, period, maxClock) ==
  /\ clock < maxClock
  /\ batch[a] = <<>>
  /\ inbox[a] # <<>>
  /\ clock' = clock + period
  /\ batch' = [batch EXCEPT ![a] = inbox[a]]
  /\ inbox' = [inbox EXCEPT ![a] = <<>>]
  /\ lastOp' = Op("checkMessages", a, a)
  /\ lastEval' = NoEval
  /\ UNCHANGED <<convs, sentRun, inMsg, inConv, autoSent, injected>>
  /\ UNCHANGED sideVars

(* a message sent by hand: handler.js send <friend> <message> *)
SendByHand(from, to, text, injectBound) ==
  /\ injected < injectBound
  /\ inbox' = sendToFriend(inbox, from, to, text, "ok", clock)
  /\ injected' = injected + 1
  /\ lastOp' = Op("send", from, to)
  /\ lastEval' = NoEval
  /\ UNCHANGED <<clock, convs, sentRun, inMsg, inConv, batch, autoSent>>
  /\ UNCHANGED sideVars

(* ---------------------------------------------------------------------- *)
(* Specification of one agent running processAndReply on the messages a   *)
(* peer sends by hand                                                     *)
(* ---------------------------------------------------------------------- *)
AutoMaxInjected == 3
AutoMaxTicks == 2
AutoTexts == {TxtHello, TxtHelloShout, TxtFyi}

AutoNext ==
  \/ \E t \in AutoTexts : SendByHand("Bo", Self, t, AutoMaxInjected)
  \/ CheckMessages(Self)
  \/ \E o \in SendOutcomes, k \in 0..2 : HandleMessage(Self, o, k, AutoMaxInjected)
  \/ Tick(DecideT0 + AutoMaxTicks * cooldownMs)

SpecAuto == ApiInit /\ [][AutoNext]_vars

(* ---------------------------------------------------------------------- *)
(* Specification of two agents that both run processAndReply, started by  *)
(* one message sent by hand from Al to Bo                                 *)
(* ---------------------------------------------------------------------- *)
LoopMaxSent == 24
LoopMaxBeats == 60
LoopFirstTexts == {TxtHello, TxtFyi, TxtWeather, TxtThanks, TxtPlease}

LoopInit ==
  /\ clock = DecideT0
  /\ convs = [a \in Agents |-> EmptyStore]
  /\ lastOp = Op("send", "Al", "Bo")
  /\ sentRun = [a \in Agents |-> [p \in Agents \cup Peers |-> 0]]
  /\ lastEval = NoEval
  /\ inMsg = NoMessage
  /\ inConv = newConversation("Bo")
  /\ \E t \in LoopFirstTexts :
       inbox = sendToFriend([a \in Agents |-> <<>>], "Al", "Bo", t, "ok", clock)
  /\ batch = [a \in Agents |-> <<>>]
  /\ autoSent = [a \in Agents |-> 0]
  /\ injected = 1
  /\ SideInit

LoopNext ==
  \/ \E a \in Agents :
       CheckMessagesOnHeartbeat(a, cooldownMs, DecideT0 + LoopMaxBeats * cooldownMs)
  \/ \E a \in Agents, o \in SendOutcomes, k \in 0..2 : HandleMessage(a, o, k, LoopMaxSent)

SpecLoop == LoopInit /\ [][LoopNext]_vars

(* ---------------------------------------------------------------------- *)
(* Properties of the auto-reply loop                                      *)
(* ---------------------------------------------------------------------- *)
(* occurrences of the evaluated text among the last 10 digests recorded   *)
(* for the peer at the time of the evaluation                             *)
recordedOccurrences(e) ==
  LET recent == sliceLast(e.storedConv[1].messageHashes, SimilarityWindow)
  IN Cardinality({i \in 1..Len(recent) : recent[i] = hashMessageTable[textOf(e.message)]})

(* C8: when the evaluated message is the 3rd occurrence of its normalized *)
(* text among the last 10 recorded digests and no earlier rule matches,   *)
(* the verdict is reply=false, loop_detected, sendLoopSignal=true.        *)
C8_ThirdOccurrenceDetected ==
  (/\ lastEval.done
   /\ lastEval.message.type = MSG
   /\ hasText(lastEval.message)
   /\ lastEval.storedConv # None
   /\ lastEval.storedConv[1].lastSpeaker = "peer"
   /\ recordedOccurrences(lastEval) = similarityThreshold
   /\ \A i \in 1..7 : ~RuleMatches(i, lastEval)) =>
    lastEval.verdict =
      [Verdict(FALSE, "loop_detected", undefined) EXCEPT !.sendLoopSignal = TRUE]

(* C1: two agents running the auto-reply loop against each other stop    *)
(* sending after finitely many automatic messages: an agent sends at most *)
(* maxTurns contextual replies, one end-session notice and one loop       *)
(* notice in a conversation that is never reset.                          *)
C1_AutoSendsDieOut == \A a \in Agents : autoSent[a] <= maxTurns + 2

(* ---------------------------------------------------------------------- *)
(* Specification of one conversation left idle: the protocol calls for    *)
(* one peer, and periods of sessionTimeoutMs without any call             *)
(* ---------------------------------------------------------------------- *)
IdleMaxTurn == 2
IdleMaxPeriods == 2

(* no call is made for sessionTimeoutMs *)
Idle(maxClock) ==
  /\ clock < maxClock
  /\ clock' = clock + sessionTimeoutMs
  /\ lastOp' = Op("idle", Self, "Bo")
  /\ lastEval' = NoEval
  /\ UNCHANGED <<convs, sentRun, inMsg, inConv>>
  /\ UNCHANGED relayVars
  /\ UNCHANGED sideVars

IdleNext ==
  \/ GetConversation(Self, LongPeer)
  \/ \E m \in ApiRecorded : RecordSentMessage(Self, LongPeer, m, IdleMaxTurn)
  \/ \E m \in ApiRecorded : RecordReceivedMessage(Self, LongPeer, m, IdleMaxTurn)
  \/ EndConversation(Self, LongPeer)
  \/ \E m \in ApiEnvelopes : ShouldReply(Self, LongPeer, m)
  \/ Idle(DecideT0 + IdleMaxPeriods * sessionTimeoutMs)

SpecIdle == ApiInit /\ [][IdleNext]_vars

(* C14: a message evaluated on a conversation whose last activity is at   *)
(* least sessionTimeoutMs old gets the verdict a fresh conversation       *)
(* (turn 0, active, empty window) would get.                              *)
C14_IdleSessionReset ==
  (/\ lastEval.done
   /\ lastEval.conversation.turn > 0
   /\ lastEval.now - lastEval.conversation.lastMessageTime >= sessionTimeoutMs) =>
    lastEval.verdict =
      shouldReply(lastEval.message, newConversation(lastEval.peer), lastEval.now)

(* ---------------------------------------------------------------------- *)
(* Specification of one agent running processAndReply while a peer sends  *)
(* a burst of messages by hand                                            *)
(* ---------------------------------------------------------------------- *)
BurstMaxInjected == 19
BurstMaxTicks == 1
BurstTexts == {TxtFyi}

BurstNext ==
  \/ \E t \in BurstTexts : SendByHand("Bo", Self, t, BurstMaxInjected)
  \/ CheckMessages(Self)
  \/ \E o \in SendOutcomes, k \in 0..2 : HandleMessage(Self, o, k, BurstMaxInjected)
  \/ Tick(DecideT0 + BurstMaxTicks * cooldownMs)

SpecBurst == ApiInit /\ [][BurstNext]_vars

(* the messages processAndReply of Self has sent to peer p and p has not  *)
(* fetched yet                                                            *)
autoSentTo(p) == SelectSeq(inbox[p], LAMBDA msg : msg.from = Self)

(* C15: any two messages the auto-reply loop sends to the same peer are   *)
(* at least cooldownMs apart.                                             *)
C15_AutoSendsCooldownApart ==
  \A p \in Agents \ {Self} :
    \A i, j \in 1..Len(autoSentTo(p)) :
      i < j => autoSentTo(p)[j].timestamp - autoSentTo(p)[i].timestamp >= cooldownMs

(* ---------------------------------------------------------------------- *)
(* Task waits (tasks.js): waitForTaskResponse, handleTaskResponse and the *)
(* timeout callback, each run to completion by the event loop             *)
(* ---------------------------------------------------------------------- *)
(* Map.prototype.set / delete on pendingTasks *)
mapSet(map, key, value) == [k \in DOMAIN map \cup {key} |-> IF k = key THEN value ELSE map[k]]
mapDelete(map, key) == [k \in DOMAIN map \ {key} |-> map[k]]

(* settling a promise: resolve and reject act on a pending promise only *)
settle(wait, outcome) == IF wait.promise = "pending" THEN outcome ELSE wait.promise

(* the pending entry's resolve without clearTimeout *)
resolveWaitKeepTimer(wait) ==
  [wait EXCEPT !.resolveCalls = @ + 1, !.promise = settle(wait, "resolved")]

(* the pending entry's resolve: clearTimeout(timer); resolve(result) *)
resolveWait(wait) ==
  [wait EXCEPT !.timer = IF @ = "armed" THEN "cleared" ELSE @,
               !.resolveCalls = @ + 1,
               !.promise = settle(wait, "resolved")]

(* the timeout callback's reject *)
rejectWait(wait) ==
  [wait EXCEPT !.timer = "fired", !.rejectCalls = @ + 1, !.promise = settle(wait, "rejected")]

pendingOn(w, t) == waits[w].promise = "pending" /\ waits[w].taskId = t

(* waitForTaskResponse(taskId, timeout) by wait w *)
WaitForTaskResponse(w, t) ==
  /\ waits[w].promise = "none"
  /\ LET overlap == \E v \in WaitIds \ {w} : pendingOn(v, t)
     IN waits' =
          [v \in WaitIds |->
             IF v = w
             THEN [taskId |-> t, timer |-> "armed", promise |-> "pending",
                   resolveCalls |-> 0, rejectCalls |-> 0, alone |-> ~overlap]
             ELSE IF pendingOn(v, t) THEN [waits[v] EXCEPT !.alone = FALSE]
             ELSE waits[v]]
  /\ pendingTasks' = mapSet(pendingTasks, t, w)
  /\ lastOp' = Op("waitForTaskResponse", w, t)
  /\ UNCHANGED <<clock, convs, sentRun, lastEval, inMsg, inConv, responses>>
  /\ UNCHANGED <<returned, workers, completed>>
  /\ UNCHANGED peerVars
  /\ UNCHANGED relayVars

(* handleTaskResponse that keeps a response nobody waits for, for the     *)
(* first wait made                                                        *)
HandleTaskResponseRetained(t, maxResponses) ==
  /\ responses < maxResponses
  /\ responses' = responses + 1
  /\ IF t \in DOMAIN pendingTasks
     THEN /\ waits' = [waits EXCEPT ![pendingTasks[t]] = resolveWait(@)]
          /\ pendingTasks' = mapDelete(pendingTasks, t)
     ELSE /\ pendingTasks' = mapSet(pendingTasks, t, "w1")
          /\ UNCHANGED waits
  /\ lastOp' = Op("handleTaskResponse", Self, t)
  /\ UNCHANGED <<clock, convs, sentRun, lastEval, inMsg, inConv>>
  /\ UNCHANGED <<returned, workers, completed>>
  /\ UNCHANGED peerVars
  /\ UNCHANGED relayVars

(* handleTaskResponse(from, response) for a task_response with taskId t *)
HandleTaskResponse(t, maxResponses) ==
  /\ responses < maxResponses
  /\ responses' = responses + 1
  /\ IF t \in DOMAIN pendingTasks
     THEN /\ waits' = [waits EXCEPT ![pendingTasks[t]] = resolveWait(@)]
          /\ pendingTasks' = mapDelete(pendingTasks, t)
     ELSE UNCHANGED <<waits, pendingTasks>>
  /\ lastOp' = Op("handleTaskResponse", Self, t)
  /\ UNCHANGED <<clock, convs, sentRun, lastEval, inMsg, inConv>>
  /\ UNCHANGED <<returned, workers, completed>>
  /\ UNCHANGED peerVars
  /\ UNCHANGED relayVars

(* the setTimeout callback of wait w runs *)
TimerFires(w) ==
  /\ waits[w].timer = "armed"
  /\ pendingTasks' = mapDelete(pendingTasks, waits[w].taskId)
  /\ waits' = [waits EXCEPT ![w] = rejectWait(@)]
  /\ lastOp' = Op("timeout", w, waits[w].taskId)
  /\ UNCHANGED <<clock, convs, sentRun, lastEval, inMsg, inConv, responses>>
  /\ UNCHANGED <<returned, workers, completed>>
  /\ UNCHANGED peerVars
  /\ UNCHANGED relayVars

TaskMaxResponses == 3

TaskNext ==
  \/ \E w \in WaitIds, t \in TaskIds : WaitForTaskResponse(w, t)
  \/ \E t \in TaskIds : HandleTaskResponse(t, TaskMaxResponses)
  \/ \E w \in WaitIds : TimerFires(w)

SpecTasks == ApiInit /\ [][TaskNext]_vars

(* a wait is settled at most once, by resolve or by reject, and a settled *)
(* wait is never touched again                                            *)
settledOnce(w) ==
  /\ waits'[w].resolveCalls + waits'[w].rejectCalls <= 1
  /\ waits'[w].promise = "resolved" <=> waits'[w].resolveCalls = 1
  /\ waits'[w].promise = "rejected" <=> waits'[w].rejectCalls = 1
  /\ waits'[w].promise = "pending" <=> waits'[w].timer = "armed"
  /\ waits[w].promise \in {"resolved", "rejected"} => waits'[w] = waits[w]
  /\ (waits[w].promise = "pending" /\ lastOp'.op = "timeout" /\ lastOp'.agent = w) =>
       waits'[w].promise = "rejected"

resolvedByResponse(w) ==
  /\ waits'[w].promise = "resolved"
  /\ waits'[w].timer = "cleared"
  /\ waits[w].taskId \notin DOMAIN pendingTasks'

(* C16 as stated: every wait is settled exactly once, and a pending wait  *)
(* resolves when a response for its task id is processed.                 *)
C16_SettledOnceByResponseOrTimeout ==
  [][\A w \in WaitIds :
       /\ settledOnce(w)
       /\ (/\ waits[w].promise = "pending"
           /\ lastOp'.op = "handleTaskResponse"
           /\ lastOp'.peer = waits[w].taskId) => resolvedByResponse(w)]_vars

(* C16 amended: every wait is settled at most once, rejects when its      *)
(* timer fires first, and resolves when a response for its task id is     *)
(* processed while it is pending, provided no other wait for the same     *)
(* task id was pending during its lifetime; a wait that shared its task   *)
(* id is settled at most once as well.                                    *)
C16_SettledOnceWhenAlone ==
  [][\A w \in WaitIds :
       /\ settledOnce(w)
       /\ (waits[w].promise = "pending" /\ waits[w].alone) =>
            (waits[w].taskId \in DOMAIN pendingTasks /\ pendingTasks[waits[w].taskId] = w)
       /\ (/\ waits[w].promise = "pending"
           /\ waits[w].alone
           /\ lastOp'.op = "handleTaskResponse"
           /\ lastOp'.peer = waits[w].taskId) => resolvedByResponse(w)]_vars

C16_Witness ==
  /\ responses >= 2
  /\ waits["w1"].promise = "resolved"
  /\ waits["w1"].timer = "cleared"
  /\ waits["w1"].alone
  /\ waits["w2"].promise = "rejected"
  /\ waits["w2"].alone
  /\ waits["w2"].taskId = waits["w1"].taskId
  /\ pendingTasks = EmptyStore

(* C17: processAndReply takes the messages of a batch one at a time in    *)
(* the order the relay returned them: each iteration handles the first    *)
(* message left, reads its snapshot from the store as the iteration       *)
(* before left it (record, decision, reply and recordSentMessage all      *)
(* done), records the message after the snapshot, and nothing else writes *)
(* the store or fetches a new batch while the batch has messages left.    *)
C17_BatchInArrivalOrder ==
  [][\A a \in Agents :
       LET first == batch[a][1]
           p == first.from
           before == getConversationStore(convs[a], p)
       IN /\ (lastOp'.op = "processAndReply" /\ lastOp'.agent = a) =>
               /\ batch[a] # <<>>
               /\ lastOp'.peer = p
               /\ lastEval'.done
               /\ textOf(lastEval'.message) = first.text
               /\ lastEval'.conversation = before[p]
               /\ lastEval'.storedConv =
                    Some(recordReceivedMessage(before, p, lastEval'.message, clock)[p])
               /\ convs'[a][p].turn \in {before[p].turn + 1, before[p].turn + 2}
               /\ batch'[a] \in {SubSeq(batch[a], 2, Len(batch[a])), <<>>}
          /\ (batch[a] # <<>> /\ convs'[a] # convs[a]) =>
               (lastOp'.op = "processAndReply" /\ lastOp'.agent = a)
          /\ (batch[a] # <<>> /\ batch'[a] # batch[a]) =>
               (lastOp'.op = "processAndReply" /\ lastOp'.agent = a)]_vars

C17_Witness ==
  /\ lastOp.op = "processAndReply"
  /\ lastEval.done
  /\ lastEval.conversation.turn = 2
  /\ lastEval.conversation.lastSpeaker = "self"
  /\ lastEval.conversation.lastMessageTime = lastEval.now
  /\ lastEval.verdict.reason = "cooldown"
  /\ textOf(lastEval.message) = TxtFyi
  /\ batch[Self] # <<>>
  /\ batch[Self][1].text = TxtHello

(* ---------------------------------------------------------------------- *)
(* Worker processes of one agent, each recording the received messages of *)
(* its own peer on the shared conversations.json: every readFileSync and  *)
(* every writeFileSync of recordReceivedMessage is one step               *)
(* ---------------------------------------------------------------------- *)
WorkerPeer == [k \in Workers |-> IF k = "k1" THEN "Bo" ELSE "Cy"]
WorkerMaxRecords == 2
WorkerMessage == TextMessage(Some(TxtHello))

workerUnchanged ==
  /\ UNCHANGED <<clock, sentRun, lastEval, inMsg, inConv>>
  /\ UNCHANGED <<returned, pendingTasks, waits, responses>>
  /\ UNCHANGED peerVars
  /\ UNCHANGED relayVars

(* getConversation: loadConversations *)
WorkerGet(k, maxRecords) ==
  LET p == WorkerPeer[k]
  IN /\ workers[k].pc = "idle"
     /\ completed[p] < maxRecords
     /\ workers' = [workers EXCEPT ![k] =
                      [pc |-> IF p \in DOMAIN convs[Self] THEN "got" ELSE "create",
                       peer |-> p,
                       data |-> getConversationStore(convs[Self], p),
                       conv |-> Some(getConversation(convs[Self], p))]]
     /\ lastOp' = Op("loadConversations", k, p)
     /\ UNCHANGED <<convs, completed>>
     /\ workerUnchanged

(* getConversation: saveConversations(data) after creating the record *)
WorkerCreate(k) ==
  /\ workers[k].pc = "create"
  /\ convs' = [convs EXCEPT ![Self] = workers[k].data]
  /\ workers' = [workers EXCEPT ![k].pc = "got"]
  /\ lastOp' = Op("saveConversations", k, workers[k].peer)
  /\ UNCHANGED completed
  /\ workerUnchanged

(* updateConversation: loadConversations *)
WorkerLoad(k) ==
  /\ workers[k].pc = "got"
  /\ workers' = [workers EXCEPT ![k].pc = "loaded", ![k].data = convs[Self]]
  /\ lastOp' = Op("loadConversations", k, workers[k].peer)
  /\ UNCHANGED <<convs, completed>>
  /\ workerUnchanged

(* updateConversation: Object.assign and saveConversations(data), when    *)
(* the loaded data holds the record                                       *)
WorkerSave(k) ==
  LET p == workers[k].peer
      updates == recordUpdates(workers[k].conv[1], WorkerMessage, clock, "peer")
  IN /\ workers[k].pc = "loaded"
     /\ convs' = IF p \in DOMAIN workers[k].data
                 THEN [convs EXCEPT ![Self] = updateConversation(workers[k].data, p, updates)]
                 ELSE convs
     /\ workers' = [workers EXCEPT ![k] = IdleWorker]
     /\ completed' = [completed EXCEPT ![p] = @ + 1]
     /\ lastOp' = Op("saveConversations", k, p)
     /\ workerUnchanged

WorkersNext ==
  \/ \E k \in Workers : WorkerGet(k, WorkerMaxRecords)
  \/ \E k \in Workers : WorkerCreate(k)
  \/ \E k \in Workers : WorkerLoad(k)
  \/ \E k \in Workers : WorkerSave(k)

SpecWorkers == ApiInit /\ [][WorkersNext]_vars

(* C18: workers that record the messages of different peers leave, once   *)
(* all of them are done, the record each peer would have had alone: one   *)
(* turn per completed recordReceivedMessage call.                         *)
C18_WorkersKeepEveryRecord ==
  (\A k \in Workers : workers[k].pc = "idle") =>
    \A p \in Peers : turnOf(Self, p) = completed[p]

(* ---------------------------------------------------------------------- *)
(* Envelope constructors: buildMessage, buildAck, buildControl.  An       *)
(* option the caller leaves out is None; the random id is left out.       *)
(* ---------------------------------------------------------------------- *)
(* a destructuring default: the default replaces an undefined option *)
withDefault(option, default) == IF option = None THEN default ELSE option[1]

(* buildMessage that keeps the caller's expectReply and ttl for every type *)
buildMessageAsGiven(options, now) ==
  [conversationId |-> options.conversationId,
   to |-> options.to,
   timestamp |-> now,
   type |-> withDefault(options.type, MSG),
   expectReply |-> withDefault(options.expectReply, TRUE),
   ttl |-> withDefault(options.ttl, maxTurns),
   body |-> options.body,
   inReplyTo |-> withDefault(options.inReplyTo, "null")]

buildMessage(options, now) ==
  LET type == withDefault(options.type, MSG)
      expectReply == withDefault(options.expectReply, TRUE)
      ttl == withDefault(options.ttl, maxTurns)
  IN [conversationId |-> options.conversationId,
      to |-> options.to,
      timestamp |-> now,
      type |-> type,
      expectReply |-> IF type = ACK THEN FALSE ELSE expectReply,
      ttl |-> IF type = ACK THEN 0 ELSE ttl,
      body |-> options.body,
      inReplyTo |-> withDefault(options.inReplyTo, "null")]

buildAck(originalMessage, note, now) ==
  buildMessage(
    [conversationId |-> originalMessage.conversationId,
     to |-> originalMessage.from,
     type |-> Some(ACK),
     body |-> [ackFor |-> originalMessage.id, note |-> withDefault(note, "null")],
     expectReply |-> Some(FALSE),
     ttl |-> Some(0),
     inReplyTo |-> Some(originalMessage.id)], now)

(* body: { signal, ...data } *)
buildControl(conversationId, to, signal, data, now) ==
  buildMessage(
    [conversationId |-> conversationId,
     to |-> to,
     type |-> Some(CONTROL),
     body |-> assign([signal |-> signal], data),
     expectReply |-> Some(FALSE),
     ttl |-> Some(0),
     inReplyTo |-> None], now)

BuildTtls == {None, Some(-1), Some(0), Some(5)}

BuildOptions ==
  {[conversationId |-> "conv_1", to |-> "Bo", type |-> ty, body |-> [text |-> TxtHello],
    expectReply |-> e, ttl |-> l, inReplyTo |-> r] :
     ty \in {None} \cup {Some(x) : x \in MessageType},
     e \in DecideExpect,
     l \in BuildTtls,
     r \in {None, Some("msg_1")}}

BuildOriginals ==
  {[id |-> "msg_1", conversationId |-> "conv_1", from |-> "Bo", type |-> ty,
    expectReply |-> e, ttl |-> l] :
     ty \in MessageType, e \in BOOLEAN, l \in {0, 5}}

BuildNotes == {None, Some("done")}

BuildData == {EmptyStore, [reason |-> "limit"], [signal |-> "resume"]}

BuildMessage(options) ==
  /\ returned' = Return("buildMessage", options, buildMessage(options, clock))
  /\ lastOp' = Op("buildMessage", Self, options.to)
  /\ UNCHANGED <<clock, convs, sentRun, lastEval, inMsg, inConv>>
  /\ UNCHANGED <<pendingTasks, waits, responses, workers, completed>>
  /\ UNCHANGED peerVars
  /\ UNCHANGED relayVars

BuildAck(originalMessage, note) ==
  /\ returned' =
       Return("buildAck", <<originalMessage, note>>, buildAck(originalMessage, note, clock))
  /\ lastOp' = Op("buildAck", Self, originalMessage.from)
  /\ UNCHANGED <<clock, convs, sentRun, lastEval, inMsg, inConv>>
  /\ UNCHANGED <<pendingTasks, waits, responses, workers, completed>>
  /\ UNCHANGED peerVars
  /\ UNCHANGED relayVars

BuildControl(conversationId, to, signal, data) ==
  /\ returned' =
       Return("buildControl", <<conversationId, to, signal, data>>,
              buildControl(conversationId, to, signal, data, clock))
  /\ lastOp' = Op("buildControl", Self, to)
  /\ UNCHANGED <<clock, convs, sentRun, lastEval, inMsg, inConv>>
  /\ UNCHANGED <<pendingTasks, waits, responses, workers, completed>>
  /\ UNCHANGED peerVars
  /\ UNCHANGED relayVars

BuildNext ==
  \/ \E options \in BuildOptions : BuildMessage(options)
  \/ \E original \in BuildOriginals, note \in BuildNotes : BuildAck(original, note)
  \/ \E signal \in ControlSignal, data \in BuildData : BuildControl("conv_1", "Bo", signal, data)
  \/ Tick(ApiClockEnd)

SpecBuild == ApiInit /\ [][BuildNext]_vars

(* C19: buildMessage with type ACK returns expectReply=false and ttl=0    *)
(* whatever the caller passed, and every envelope buildAck or             *)
(* buildControl returns has expectReply=false and ttl=0.                  *)
C19_AckAndControlFixedPolicy ==
  /\ (returned.call = "buildMessage" /\ returned.input.type = Some(ACK)) =>
       (returned.output.expectReply = FALSE /\ returned.output.ttl = 0)
  /\ returned.call = "buildAck" =>
       /\ returned.output.type = ACK
       /\ returned.output.expectReply = FALSE
       /\ returned.output.ttl = 0
  /\ returned.call = "buildControl" =>
       /\ returned.output.type = CONTROL
       /\ returned.output.expectReply = FALSE
       /\ returned.output.ttl = 0

C19_Witness ==
  /\ returned.call = "buildMessage"
  /\ returned.input.type = Some(ACK)
  /\ returned.input.expectReply = Some(TRUE)
  /\ returned.input.ttl = Some(5)
  /\ returned.output.type = ACK
  /\ returned.output.expectReply = FALSE
  /\ returned.output.ttl = 0

(* ---------------------------------------------------------------------- *)
(* Specification of classifyIntent: the function applied to texts drawn   *)
(* from a bounded set, and shouldReply applied to one text message        *)
(* ---------------------------------------------------------------------- *)
ClassifyTexts ==
  {TxtHello, TxtHelloShout, TxtThanks, TxtWeather, TxtFyi, TxtPlease, TxtEmpty,
   TxtHelloQuestion, TxtDoIt, TxtHiPlease, TxtOkPlease, TxtThanksQuestion}

ClassifySnapshots ==
  { newConversation("Bo"),
    [newConversation("Bo") EXCEPT !.turn = 1, !.lastSpeaker = "self",
                                  !.lastMessageTime = DecideT0,
                                  !.messageHashes = <<hashMessageTable[TxtFyi]>>],
    [newConversation("Bo") EXCEPT !.active = FALSE] }

ClassifyInit ==
  /\ inMsg \in {TextMessage(Some(t)) : t \in ClassifyTexts \ {TxtEmpty}}
  /\ inConv \in ClassifySnapshots
  /\ clock \in {DecideT0, DecideT0 + cooldownMs}
  /\ convs = [a \in Agents |-> IF a = Self THEN (inConv.peerId :> inConv) ELSE EmptyStore]
  /\ lastOp = NoOp
  /\ sentRun = [a \in Agents |-> [p \in Agents \cup Peers |-> 0]]
  /\ lastEval = NoEval
  /\ inbox = [a \in Agents |-> <<>>]
  /\ batch = [a \in Agents |-> <<>>]
  /\ autoSent = [a \in Agents |-> 0]
  /\ injected = 0
  /\ SideInit

ClassifyIntent(text) ==
  /\ returned' = Return("classifyIntent", text, classifyIntent(text))
  /\ lastOp' = Op("classifyIntent", Self, "Bo")
  /\ UNCHANGED <<clock, convs, sentRun, lastEval, inMsg, inConv>>
  /\ UNCHANGED <<pendingTasks, waits, responses, workers, completed>>
  /\ UNCHANGED peerVars
  /\ UNCHANGED relayVars

ClassifyNext ==
  \/ \E text \in ClassifyTexts : ClassifyIntent(text)
  \/ Decide

SpecClassify == ClassifyInit /\ [][ClassifyNext]_vars

(* the classes in priority order, and the test of each class *)
ClassOrder == <<QUESTION, ACTION_REQUEST, GREETING, CONFIRMATION>>

matchesClass(class, text) ==
  LET lower == toLowerCase(text)
  IN CASE class = QUESTION ->
            \/ includes(lower, <<"?">>)
            \/ startsWithAny(lower, QuestionWordsEn)
            \/ startsWithAny(lower, QuestionWordsFr)
       [] class = ACTION_REQUEST ->
            \/ startsWithAny(lower, ActionPrefixes)
            \/ containsAnyWord(lower, PolitenessMarkers)
       [] class = GREETING -> startsWithAnyWord(lower, GreetingWords)
       [] class = CONFIRMATION -> startsWithAnyWord(lower, ConfirmationWords)

matchingClasses(text) == {i \in 1..Len(ClassOrder) : matchesClass(ClassOrder[i], text)}

passesEarlyRules(e) == \A i \in 1..8 : ~RuleMatches(i, e)

(* C21: "Can you search for weather?" evaluated as a repliable MSG on an  *)
(* active conversation yields reply=true with intent action_request.      *)
C21_WeatherIsActionRequest ==
  (/\ lastEval.done
   /\ lastEval.message = TextMessage(Some(TxtWeather))
   /\ passesEarlyRules(lastEval)) =>
     lastEval.verdict = Verdict(TRUE, undefined, ACTION_REQUEST)


(* ---------------------------------------------------------------------- *)
(* Specification of one agent running processAndReply on a confirmation   *)
(* or a request a peer sends by hand                                      *)
(* ---------------------------------------------------------------------- *)
CourtesyMaxInjected == 2
CourtesyMaxTicks == 1
CourtesyTexts == {TxtThanks, TxtWeather}

CourtesyNext ==
  \/ \E t \in CourtesyTexts : SendByHand("Bo", Self, t, CourtesyMaxInjected)
  \/ CheckMessages(Self)
  \/ \E o \in SendOutcomes, k \in 0..2 : HandleMessage(Self, o, k, CourtesyMaxInjected)
  \/ Tick(DecideT0 + CourtesyMaxTicks * cooldownMs)

SpecCourtesy == ApiInit /\ [][CourtesyNext]_vars

(* C22: a MSG whose text is classified confirmation ("Thanks!") and which *)
(* passes rules 1-8 gets reply=false, reason no_action_needed and         *)
(* sendAck=true, and the iteration of processAndReply that evaluates it   *)
(* sends nothing and records no sent message.                             *)
C22_ConfirmationNotAnswered ==
  [][(/\ lastOp'.op = "processAndReply"
      /\ lastEval'.done
      /\ hasText(lastEval'.message)
      /\ classifyIntent(textOf(lastEval'.message)) = CONFIRMATION
      /\ passesEarlyRules(lastEval')) =>
        /\ lastEval'.verdict =
             [Verdict(FALSE, "no_action_needed", undefined) EXCEPT !.sendAck = TRUE]
        /\ inbox' = inbox
        /\ autoSent' = autoSent
        /\ convs'[lastEval'.agent][lastEval'.peer].lastSpeaker = "peer"]_vars

C22_Witness ==
  /\ lastOp.op = "processAndReply"
  /\ lastEval.done
  /\ lastEval.message = TextMessage(Some(TxtThanks))
  /\ passesEarlyRules(lastEval)
  /\ lastEval.conversation.turn = 1
  /\ lastEval.verdict.reason = "no_action_needed"
  /\ lastEval.verdict.sendAck
  /\ inbox["Bo"] = <<>>
  /\ autoSent[Self] = 0


(* ---------------------------------------------------------------------- *)
(* simple-friends.js: addFriendDirect(friendLink)                         *)
(* ---------------------------------------------------------------------- *)
Throw(error) == [throws |-> TRUE, error |-> error]
throws(result) == "throws" \in DOMAIN result

(* a clawlink:// link as its query parameters: key (with or without the   *)
(* ed25519: prefix), name and x25519, each present or not                 *)
FriendLink(key, name, x25519) == [key |-> key, name |-> name, x25519 |-> x25519]
LinkKey(scheme, value) == [scheme |-> scheme, value |-> value]

parseFriendLink(link) ==
  IF link.key = None THEN Throw("No public key in link")
  ELSE [publicKey |-> link.key[1].value,
        displayName |-> withDefault(link.name, "Unknown"),
        x25519PublicKey |-> link.x25519]

ed25519PubToX25519(ed25519PubBase64) ==
  encodeBase64(convertPublicKey(decodeBase64(ed25519PubBase64)))

(* a duplicate check on the display name *)
alreadyFriendsByName(friendList, parsed) ==
  \E i \in 1..Len(friendList) : friendList[i].displayName = parsed.displayName

(* friendsData.friends.find(f => f.publicKey === publicKey) *)
alreadyFriends(friendList, parsed) ==
  \E i \in 1..Len(friendList) : friendList[i].publicKey = parsed.publicKey

(* the return value of addFriendDirect and the friends array it leaves *)
addFriendDirect(identity, friendList, friendLink, now) ==
  LET parsed == parseFriendLink(friendLink)
      theirX25519Pub ==
        IF parsed.x25519PublicKey # None THEN parsed.x25519PublicKey[1]
        ELSE ed25519PubToX25519(parsed.publicKey)
      ourX25519Secret == decodeBase64(identity.x25519SecretKey)
      theirX25519PubBytes == decodeBase64(theirX25519Pub)
      sharedSecret == scalarMult(ourX25519Secret, theirX25519PubBytes)
      newFriend ==
        [displayName |-> parsed.displayName,
         publicKey |-> parsed.publicKey,
         x25519PublicKey |-> theirX25519Pub,
         sharedSecret |-> encodeBase64(sharedSecret),
         addedAt |-> now,
         addMethod |-> "direct",
         status |-> "connected"]
  IN IF throws(parsed) THEN [result |-> parsed, friends |-> friendList]
     ELSE IF alreadyFriends(friendList, parsed)
     THEN [result |-> [success |-> FALSE, error |-> <<"Already friends with", parsed.displayName>>],
           friends |-> friendList]
     ELSE [result |-> [success |-> TRUE, friend |-> parsed.displayName],
           friends |-> Append(friendList, newFriend)]

AddFriendDirect(a, friendLink) ==
  /\ LET out == addFriendDirect(identities[a], friends[a], friendLink, clock)
     IN /\ friends' = [friends EXCEPT ![a] = out.friends]
        /\ returned' = Return("addFriendDirect", [agent |-> a, link |-> friendLink], out.result)
  /\ lastOp' = Op("addFriendDirect", a, a)
  /\ lastEval' = NoEval
  /\ UNCHANGED <<clock, convs, sentRun, inMsg, inConv>>
  /\ UNCHANGED <<pendingTasks, waits, responses, workers, completed>>
  /\ UNCHANGED <<identities, groupRelay, files, taskHandlers>>
  /\ UNCHANGED relayVars

(* ---------------------------------------------------------------------- *)
(* Specification of two agents adding friends from links: the identities  *)
(* have an exchange pair converted from the signing pair or a fresh one,  *)
(* the links carry the x25519 key or leave it out                         *)
(* ---------------------------------------------------------------------- *)
FriendIdentities ==
  { [n \in Names |-> CASE n = "Al" -> generateIdentity(2, al)
                       [] n = "Bo" -> generateIdentity(4, bo)
                       [] OTHER -> generateIdentity(7, 7)] : al \in {2, 3}, bo \in {4, 6} }

(* the links a friend gives out, under one's own name or a nickname *)
LinksOf(n) ==
  { FriendLink(Some(LinkKey(scheme, identities[n].publicKey)), name, x25519) :
      scheme \in BOOLEAN,
      name \in {None, Some(n)},
      x25519 \in {None, Some(identities[n].x25519PublicKey)} }

FriendLinks == {FriendLink(None, Some("Cy"), None)} \cup UNION {LinksOf(n) : n \in Names}

(* the initial state of a specification of the peer modules *)
PeerInit(ids, friendLists, fileContents) ==
  /\ clock = DecideT0
  /\ convs = [a \in Agents |-> EmptyStore]
  /\ lastOp = NoOp
  /\ sentRun = [a \in Agents |-> [p \in Agents \cup Peers |-> 0]]
  /\ lastEval = NoEval
  /\ inMsg = NoMessage
  /\ inConv = newConversation("Bo")
  /\ inbox = [a \in Agents |-> <<>>]
  /\ batch = [a \in Agents |-> <<>>]
  /\ autoSent = [a \in Agents |-> 0]
  /\ injected = 0
  /\ returned = NoReturn
  /\ pendingTasks = EmptyStore
  /\ waits = [w \in WaitIds |-> NoWait]
  /\ responses = 0
  /\ workers = [k \in Workers |-> IdleWorker]
  /\ completed = [p \in Peers |-> 0]
  /\ identities = ids
  /\ friends = friendLists
  /\ groupRelay = <<>>
  /\ files = fileContents
  /\ taskHandlers = {}

FriendsInit ==
  \E ids \in FriendIdentities : PeerInit(ids, [a \in Agents |-> <<>>], NoFiles)

FriendsNext ==
  \E a \in Agents, link \in FriendLinks : link.key # Some(LinkKey(TRUE, identities[a].publicKey))
                                           /\ link.key # Some(LinkKey(FALSE, identities[a].publicKey))
                                           /\ AddFriendDirect(a, link)

SpecFriends == FriendsInit /\ [][FriendsNext]_vars

(* the entry agent a holds for the identity of b, if it has one *)
entriesFor(a, b) ==
  {i \in 1..Len(friends[a]) : friends[a][i].publicKey = identities[b].publicKey}

C27_FriendStoredOnce ==
  /\ [](\A a \in Agents : \A i, j \in 1..Len(friends[a]) :
          friends[a][i].publicKey = friends[a][j].publicKey => i = j)
  /\ [][(/\ lastOp'.op = "addFriendDirect"
         /\ returned'.input.link.key # None
         /\ \E i \in 1..Len(friends[returned'.input.agent]) :
              friends[returned'.input.agent][i].publicKey
                = returned'.input.link.key[1].value) =>
           /\ ~throws(returned'.output)
           /\ returned'.output.success = FALSE
           /\ friends' = friends]_vars

C27_Witness ==
  /\ lastOp.op = "addFriendDirect"
  /\ returned.input.agent = "Al"
  /\ returned.input.link = FriendLink(Some(LinkKey(FALSE, identities["Bo"].publicKey)), None, None)
  /\ returned.output = [success |-> FALSE, error |-> <<"Already friends with", "Unknown">>]
  /\ Len(friends["Al"]) = 1
  /\ friends["Al"][1].displayName = "Bo"
  /\ friends["Al"][1].x25519PublicKey = identities["Bo"].x25519PublicKey
  /\ friends["Al"][1].sharedSecret # encodeBase64(scalarMult(
       decodeBase64(identities["Al"].x25519SecretKey),
       convertPublicKey(decodeBase64(identities["Bo"].publicKey))))


(* ---------------------------------------------------------------------- *)
(* crypto.js: authenticated encryption and signatures, symbolically       *)
(* ---------------------------------------------------------------------- *)
serialize(value) == <<"json", value>>
parse(text) == text[2]

(* the sealed box of a serialized plaintext under a key and a nonce *)
secretbox(text, nonce, key) == [box |-> text, nonce |-> nonce, key |-> key]

(* an opening that does not check the key *)
secretboxOpenAnyKey(sealed, nonce, key) ==
  IF sealed.key # 0 /\ sealed.nonce = nonce THEN Some(sealed.box) ELSE None

(* nacl.secretbox.open: the text, or nothing when the tag does not match *)
secretboxOpen(sealed, nonce, key) ==
  IF sealed.key = key /\ sealed.nonce = nonce THEN Some(sealed.box) ELSE None

(* crypto.encrypt(plaintext, key) with the nonce it draws *)
encrypt(plaintext, key, nonce) ==
  [ciphertext |-> encodeBase64(secretbox(serialize(plaintext), nonce, key)),
   nonce |-> encodeBase64(nonce)]

(* crypto.decrypt(ciphertext, nonce, key): the plaintext, or a throw *)
decrypt(ciphertext, nonce, key) ==
  LET opened == secretboxOpen(decodeBase64(ciphertext), decodeBase64(nonce), key)
  IN IF opened = None THEN Throw("Decryption failed") ELSE parse(opened[1])

(* crypto.sign(payload, secretKey) and the verification of a signature *)
sign(payload, secretKey) == [signed |-> payload, by |-> decodeBase64(secretKey)]
verify(payload, signature, publicKey) ==
  /\ signature.signed = payload
  /\ ed25519Public(signature.by) = decodeBase64(publicKey)

(* relay.base64ToHex *)
base64ToHex(text) == <<"hex", decodeBase64(text)>>

(* bytes no key seals: a ciphertext that was corrupted or made up *)
Garbage == secretbox(serialize(<<>>), 0, 0)

(* ---------------------------------------------------------------------- *)
(* groups.js: sendToGroup and getGroupMessages over the relay             *)
(* ---------------------------------------------------------------------- *)
GroupIds == {"g1", "g2"}
GroupKeyBytes == [g \in GroupIds |-> IF g = "g1" THEN 11 ELSE 12]

(* groups.json of each agent: Al is in both groups, Bo in g1 only *)
GroupsOf(a) ==
  IF a = "Al" THEN [g \in GroupIds |-> [id |-> g, key |-> encodeBase64(GroupKeyBytes[g])]]
  ELSE [g \in {"g1"} |-> [id |-> g, key |-> encodeBase64(GroupKeyBytes[g])]]

Responses == {"ok", "404", "500", "network"}

(* sendToGroup: the message content it encrypts *)
messageContentOf(identity, content, now) ==
  [type |-> "text", text |-> content, timestamp |-> now, sender |-> identity.publicKey]

(* the record the relay keeps of a message posted to a group; sent is the *)
(* content and key the sender sealed, kept for reference                  *)
RelayRecord(id, groupId, from, ciphertext, nonce, timestamp, sent) ==
  [id |-> id, group |-> groupId, from |-> from, ciphertext |-> ciphertext, nonce |-> nonce,
   timestamp |-> timestamp, sent |-> sent]

SendToGroup(a, groupId, content, nonce, response, maxMessages) ==
  /\ Len(groupRelay) < maxMessages
  /\ LET identity == identities[a]
         found == groupId \in DOMAIN GroupsOf(a)
         group == GroupsOf(a)[groupId]
         messageContent == messageContentOf(identity, content, clock)
         groupKeyBytes == decodeBase64(group.key)
         sealed == encrypt(messageContent, groupKeyBytes, nonce)
         signature == sign(sealed.ciphertext, identity.secretKey)
         messageId == Len(groupRelay) + 1
         input == [agent |-> a, groupId |-> groupId, content |-> content]
     IN IF ~found
        THEN /\ returned' = Return("sendToGroup", input, Throw("Group not found"))
             /\ UNCHANGED groupRelay
        ELSE IF response # "ok"
        THEN /\ returned' = Return("sendToGroup", input, Throw("Failed to send message"))
             /\ UNCHANGED groupRelay
        ELSE /\ returned' = Return("sendToGroup", input,
                                   [success |-> TRUE, messageId |-> messageId,
                                    groupId |-> groupId])
             /\ groupRelay' =
                  Append(groupRelay,
                         RelayRecord(messageId, groupId, base64ToHex(identity.publicKey),
                                     sealed.ciphertext, sealed.nonce, clock,
                                     Some([content |-> messageContent, key |-> groupKeyBytes])))
  /\ lastOp' = Op("sendToGroup", a, a)
  /\ lastEval' = NoEval
  /\ UNCHANGED <<clock, convs, sentRun, inMsg, inConv>>
  /\ UNCHANGED <<pendingTasks, waits, responses, workers, completed>>
  /\ UNCHANGED <<identities, friends, files, taskHandlers>>
  /\ UNCHANGED relayVars

(* a loop that stops at the first message it cannot decrypt *)
RECURSIVE decryptMessagesUntilFailure(_, _)
decryptMessagesUntilFailure(messages, groupKeyBytes) ==
  IF messages = <<>> THEN <<>>
  ELSE LET msg == Head(messages)
           content == decrypt(msg.ciphertext, msg.nonce, groupKeyBytes)
       IN IF throws(content) THEN <<>>
          ELSE <<[id |-> msg.id, from |-> msg.from, content |-> content,
                  timestamp |-> msg.timestamp]>>
               \o decryptMessagesUntilFailure(Tail(messages), groupKeyBytes)

(* for (const msg of data.messages) { try { decrypt, push } catch { skip } } *)
RECURSIVE decryptMessages(_, _)
decryptMessages(messages, groupKeyBytes) ==
  IF messages = <<>> THEN <<>>
  ELSE LET msg == Head(messages)
           content == decrypt(msg.ciphertext, msg.nonce, groupKeyBytes)
           rest == decryptMessages(Tail(messages), groupKeyBytes)
       IN IF throws(content) THEN rest
          ELSE <<[id |-> msg.id, from |-> msg.from, content |-> content,
                  timestamp |-> msg.timestamp]>> \o rest

(* the messages the relay answers for a group, oldest first *)
relayMessages(groupId) == SelectSeq(groupRelay, LAMBDA msg : msg.group = groupId)

GetGroupMessages(a, groupId, response) ==
  /\ LET found == groupId \in DOMAIN GroupsOf(a)
         group == GroupsOf(a)[groupId]
         data == relayMessages(groupId)
         groupKeyBytes == decodeBase64(group.key)
         messages == decryptMessages(data, groupKeyBytes)
         input == [agent |-> a, groupId |-> groupId]
     IN returned' =
          Return("getGroupMessages", input,
                 IF ~found THEN Throw("Group not found")
                 ELSE IF response # "ok" THEN Throw("Failed to get messages")
                 ELSE [groupId |-> groupId, messages |-> messages, count |-> Len(messages)])
  /\ lastOp' = Op("getGroupMessages", a, a)
  /\ lastEval' = NoEval
  /\ UNCHANGED <<clock, convs, sentRun, inMsg, inConv>>
  /\ UNCHANGED <<pendingTasks, waits, responses, workers, completed>>
  /\ UNCHANGED peerVars
  /\ UNCHANGED relayVars

(* the relay is not trusted: it may corrupt the ciphertext of a message   *)
(* it holds, or hand a message of one group out under another             *)
RelayCorrupts(i) ==
  /\ i \in 1..Len(groupRelay)
  /\ groupRelay[i].sent # None
  /\ groupRelay' = [groupRelay EXCEPT ![i].ciphertext = encodeBase64(Garbage),
                                      ![i].sent = None]
  /\ lastOp' = Op("relayCorrupts", Self, Self)
  /\ lastEval' = NoEval
  /\ UNCHANGED <<clock, convs, sentRun, inMsg, inConv>>
  /\ UNCHANGED <<returned, pendingTasks, waits, responses, workers, completed>>
  /\ UNCHANGED <<identities, friends, files, taskHandlers>>
  /\ UNCHANGED relayVars

RelayMisdelivers(i, groupId) ==
  /\ i \in 1..Len(groupRelay)
  /\ groupRelay[i].group # groupId
  /\ groupRelay' = [groupRelay EXCEPT ![i].group = groupId]
  /\ lastOp' = Op("relayMisdelivers", Self, Self)
  /\ lastEval' = NoEval
  /\ UNCHANGED <<clock, convs, sentRun, inMsg, inConv>>
  /\ UNCHANGED <<returned, pendingTasks, waits, responses, workers, completed>>
  /\ UNCHANGED <<identities, friends, files, taskHandlers>>
  /\ UNCHANGED relayVars


(* ---------------------------------------------------------------------- *)
(* webhook.js: handlePayload(body, signatureHeader, friends)              *)
(* ---------------------------------------------------------------------- *)
PayloadWindowS == 300

abs(n) == IF n < 0 THEN -n ELSE n

(* relay.decryptMessage({ciphertext, nonce}, friend) *)
decryptMessage(sealed, friend) ==
  decrypt(sealed.ciphertext, sealed.nonce, decodeBase64(friend.sharedSecret))

handlePayload(body, signatureHeader, friendList, nowMs) ==
  LET now == nowMs \div 1000
      matching == {i \in 1..Len(friendList) : base64ToHex(friendList[i].publicKey) = body.from}
      friend == friendList[CHOOSE i \in matching : \A j \in matching : i <= j]
      content == decryptMessage([ciphertext |-> body.ciphertext, nonce |-> body.nonce], friend)
  IN IF abs(now - body.timestamp) > PayloadWindowS
     THEN [error |-> "Webhook payload too old", stale |-> TRUE]
     ELSE IF matching = {} THEN [error |-> "Unknown sender", from |-> body.from]
     ELSE IF throws(content) THEN [error |-> "Decryption failed", from |-> friend.displayName]
     ELSE [success |-> TRUE, from |-> friend.displayName, fromKey |-> friend.publicKey,
           content |-> content, timestamp |-> body.timestamp]

HandlePayload(a, body, signatureHeader) ==
  /\ returned' = Return("handlePayload", [body |-> body, signatureHeader |-> signatureHeader],
                        handlePayload(body, signatureHeader, friends[a], clock))
  /\ lastOp' = Op("handlePayload", a, a)
  /\ lastEval' = NoEval
  /\ UNCHANGED <<clock, convs, sentRun, inMsg, inConv>>
  /\ UNCHANGED <<pendingTasks, waits, responses, workers, completed>>
  /\ UNCHANGED peerVars
  /\ UNCHANGED relayVars

(* ---------------------------------------------------------------------- *)
(* Specification of the encrypted channels: two agents that are friends   *)
(* post to and read from groups over a relay that is not trusted, and Al  *)
(* is handed webhook payloads                                             *)
(* ---------------------------------------------------------------------- *)
ChannelMaxMessages == 2
ChannelContents == {TxtFyi}

(* a nonce no message at the relay was sealed with *)
freshNonce == Len(groupRelay) + 1

(* the key the relay signs webhook posts with, and a key that is not it *)
RelaySigningSecret == 9
OtherSigningSecret == 8
RelayPublicKey == encodeBase64(ed25519Public(RelaySigningSecret))

linkOf(n) ==
  FriendLink(Some(LinkKey(TRUE, DefaultIdentities[n].publicKey)), Some(n),
             Some(DefaultIdentities[n].x25519PublicKey))

ChannelFriends ==
  [a \in Agents |->
     addFriendDirect(DefaultIdentities[a], <<>>,
                     linkOf(CHOOSE b \in Agents : b # a), DecideT0).friends]

sharedSecretBytes(a) == decodeBase64(ChannelFriends[a][1].sharedSecret)

(* the bodies the relay may post to Al: from Bo, sealed under the shared   *)
(* secret, under another key or made up; one that is stale; one from a    *)
(* stranger                                                               *)
WebhookBody(n, ciphertext, timestamp) ==
  [from |-> base64ToHex(DefaultIdentities[n].publicKey), ciphertext |-> ciphertext,
   nonce |-> encodeBase64(1), timestamp |-> timestamp]

SealedForAl == encrypt([text |-> TxtHello], sharedSecretBytes(Self), 1).ciphertext

WebhookBodies ==
  { WebhookBody("Bo", c, DecideT0 \div 1000) :
      c \in {SealedForAl,
             encrypt([text |-> TxtHello], sharedSecretBytes(Self) + 1, 1).ciphertext,
             encodeBase64(Garbage)} }
  \cup {WebhookBody("Bo", SealedForAl, (DecideT0 \div 1000) - PayloadWindowS - 1),
        WebhookBody("Cy", SealedForAl, DecideT0 \div 1000)}

SignatureHeaders(body) ==
  {None, Some(sign(body, encodeBase64(RelaySigningSecret))),
   Some(sign(body, encodeBase64(OtherSigningSecret)))}

ChannelInit == PeerInit(DefaultIdentities, ChannelFriends, NoFiles)

ChannelNext ==
  \/ \E a \in Agents, g \in GroupIds, content \in ChannelContents,
        response \in {"ok", "500"} :
       SendToGroup(a, g, content, freshNonce, response, ChannelMaxMessages)
  \/ \E a \in Agents, g \in GroupIds, response \in {"ok", "500"} :
       GetGroupMessages(a, g, response)
  \/ \E i \in 1..ChannelMaxMessages : RelayCorrupts(i)
  \/ \E i \in 1..ChannelMaxMessages, g \in GroupIds : RelayMisdelivers(i, g)
  \/ \E body \in WebhookBodies : \E signatureHeader \in SignatureHeaders(body) :
       HandlePayload(Self, body, signatureHeader)

SpecChannel == ChannelInit /\ [][ChannelNext]_vars

(* C23: a webhook payload whose signature is missing or does not verify   *)
(* is rejected before decryption: handlePayload never returns success     *)
(* with decrypted content for it.                                         *)
C23_UnsignedPayloadRejected ==
  (/\ returned.call = "handlePayload"
   /\ \/ returned.input.signatureHeader = None
      \/ ~verify(returned.input.body, returned.input.signatureHeader[1], RelayPublicKey)) =>
     /\ "success" \notin DOMAIN returned.output
     /\ "content" \notin DOMAIN returned.output


(* the messages of a sequence that were sealed under key and not altered  *)
(* since, going by what their senders sealed                              *)
sealedUnder(messages, key) ==
  SelectSeq(messages, LAMBDA msg : msg.sent # None /\ msg.sent[1].key = key)

(* C24: a failed decryption is fatal to that message only:                *)
(* getGroupMessages leaves out every message that fails to decrypt and   *)
(* returns every message that decrypts, in order, with count equal to the *)
(* number returned; handlePayload returns an error value with no content  *)
(* when decryption fails; content is returned whole or not at all.        *)
C24_FailedDecryptionDropsOneMessage ==
  /\ (/\ lastOp.op = "getGroupMessages"
      /\ ~throws(returned.output)) =>
       LET g == returned.input.groupId
           readable == sealedUnder(relayMessages(g), GroupKeyBytes[g])
       IN /\ returned.output.messages =
               [i \in 1..Len(readable) |->
                  [id |-> readable[i].id, from |-> readable[i].from,
                   content |-> readable[i].sent[1].content,
                   timestamp |-> readable[i].timestamp]]
          /\ returned.output.count = Len(returned.output.messages)
  /\ returned.call = "handlePayload" =>
       LET body == returned.input.body
           out == returned.output
       IN /\ "content" \in DOMAIN out =>
               body.ciphertext = SealedForAl /\ out.content = [text |-> TxtHello]
          /\ (/\ body.ciphertext # SealedForAl
              /\ body.from = base64ToHex(identities["Bo"].publicKey)
              /\ abs((clock \div 1000) - body.timestamp) <= PayloadWindowS) =>
               out = [error |-> "Decryption failed", from |-> "Bo"]

C24_Witness ==
  /\ lastOp.op = "getGroupMessages"
  /\ returned.input = [agent |-> "Bo", groupId |-> "g1"]
  /\ Len(relayMessages("g1")) = 2
  /\ relayMessages("g1")[1].ciphertext = encodeBase64(Garbage)
  /\ relayMessages("g1")[2].sent # None
  /\ ~throws(returned.output)
  /\ returned.output.count = 1
  /\ returned.output.messages[1].id = relayMessages("g1")[2].id
  /\ returned.output.messages[1].content.text = TxtFyi

TxtFetchFailed ==
  <<"f","e","t","c","h"," ","f","a","i","l","e","d">>
TxtRegisterFailed ==
  <<"F","a","i","l","e","d"," ","t","o"," ","r","e","g","i","s","t","e","r"," ","i","n"," ","d","i",
  "r","e","c","t","o","r","y">>

PRESENCE_TTL_MS == 300000
STATUS_TYPES == {"online", "busy", "away", "dnd", "offline"}

(* a file that does not exist reads as its default *)
loadFile(name, default) == withDefault(files[name], default)

saveFile(contents, name, value) == [contents EXCEPT ![name] = Some(value)]

(* what a call of a module returns (or throws) and the files it leaves *)
Outcome(result, contents) == [result |-> result, files |-> contents]

(* the key in hex, whether it is given in hex or in base64 *)
toKeyHex(publicKey) == IF publicKey[1] = "hex" THEN publicKey ELSE base64ToHex(publicKey)

(* presence.js setStatus(status, statusMessage) *)
setStatus(status, statusMessage, response, now) ==
  LET presence == [status |-> status, statusMessage |-> statusMessage, lastUpdated |-> now]
      local == saveFile(files, "presence.json",
                        presence @@ [serverSupport |-> FALSE])
  IN IF status \notin STATUS_TYPES THEN Outcome(Throw("Invalid status"), files)
     ELSE IF response = "ok"
     THEN Outcome([updated |-> TRUE, synced |-> TRUE],
                  saveFile(files, "presence.json", presence @@ [serverSupport |-> TRUE]))
     ELSE IF response = "404" THEN Outcome([updated |-> TRUE, synced |-> FALSE], local)
     ELSE Outcome([updated |-> TRUE, synced |-> FALSE,
                   error |-> IF response = "network" THEN "fetch failed"
                             ELSE "Failed to update presence"], local)

(* presence.js getCachedPresence(keyHex) *)
getCachedPresence(keyHex, now) ==
  LET cache == loadFile("friend_presence_cache.json", EmptyStore)
  IN IF keyHex \notin DOMAIN cache THEN None
     ELSE Some(cache[keyHex] @@ [stale |-> now - cache[keyHex].cachedAt > PRESENCE_TTL_MS])

OfflineStale == [status |-> "offline", stale |-> TRUE]

(* presence.js getFriendPresence(publicKey); answer is the relay's json *)
getFriendPresence(publicKey, response, answer, now) ==
  LET keyHex == toKeyHex(publicKey)
      cache == loadFile("friend_presence_cache.json", EmptyStore)
  IN IF response = "ok"
     THEN Outcome(answer,
                  saveFile(files, "friend_presence_cache.json",
                           mapSet(cache, keyHex, answer @@ [cachedAt |-> now])))
     ELSE Outcome(withDefault(getCachedPresence(keyHex, now), OfflineStale), files)

(* presence.js getCachedPresenceAll() *)
getCachedPresenceAll(friendList, now) ==
  [name \in {friendList[i].displayName : i \in 1..Len(friendList)} |->
     LET friend == friendList[CHOOSE i \in 1..Len(friendList) :
                                /\ friendList[i].displayName = name
                                /\ \A j \in (i + 1)..Len(friendList) :
                                     friendList[j].displayName # name]
     IN withDefault(getCachedPresence(base64ToHex(friend.publicKey), now), OfflineStale)]

(* presence.js getAllFriendsPresence(); answer is result.presence *)
getAllFriendsPresence(friendList, response, answer, now) ==
  LET cache == loadFile("friend_presence_cache.json", EmptyStore)
      updated == [k \in DOMAIN cache \cup DOMAIN answer |->
                    IF k \in DOMAIN answer THEN answer[k] @@ [cachedAt |-> now] ELSE cache[k]]
      withNames ==
        [name \in {friendList[i].displayName : i \in 1..Len(friendList)} |->
           LET friend == friendList[CHOOSE i \in 1..Len(friendList) :
                                      /\ friendList[i].displayName = name
                                      /\ \A j \in (i + 1)..Len(friendList) :
                                           friendList[j].displayName # name]
               keyHex == base64ToHex(friend.publicKey)
           IN IF keyHex \in DOMAIN answer THEN answer[keyHex] ELSE [status |-> "offline"]]
  IN IF friendList = <<>> THEN Outcome(EmptyStore, files)
     ELSE IF response = "ok"
     THEN Outcome(withNames, saveFile(files, "friend_presence_cache.json", updated))
     ELSE Outcome(getCachedPresenceAll(friendList, now), files)

(* directory.js register(profileData) *)
directoryRegister(identity, profileData, response, now) ==
  LET profile == [displayName |-> "ClawLink User",
                  description |-> withDefault(profileData.description, ""),
                  visibility |-> withDefault(profileData.visibility, "public"),
                  publicKey |-> base64ToHex(identity.publicKey),
                  x25519PublicKey |-> base64ToHex(identity.x25519PublicKey)]
      pending == saveFile(files, "profile.json",
                          profile @@ [registered |-> FALSE, serverSupport |-> FALSE])
      message == IF response = "network" THEN TxtFetchFailed ELSE TxtRegisterFailed
  IN IF response = "ok"
     THEN Outcome([registered |-> TRUE],
                  saveFile(files, "profile.json",
                           profile @@ [registered |-> TRUE, serverSupport |-> TRUE,
                                       registeredAt |-> now]))
     ELSE IF response = "404" THEN Outcome([registered |-> FALSE, pending |-> TRUE], pending)
     ELSE IF includes(message, <<"f","e","t","c","h">>)
     THEN Outcome([registered |-> FALSE, pending |-> TRUE, error |-> "Network error"], pending)
     ELSE Outcome(Throw(message), files)

NoCache == [agents |-> <<>>, lastUpdated |-> None]

(* directory.js searchCache(query) with no filter *)
searchCache == loadFile("directory_cache.json", NoCache).agents

(* cache.agents with the agents of a search result put in *)
RECURSIVE mergeAgents(_, _)
mergeAgents(cached, found) ==
  IF found = <<>> THEN cached
  ELSE LET agent == Head(found)
           existing == {i \in 1..Len(cached) : cached[i].publicKey = agent.publicKey}
       IN mergeAgents(IF existing # {}
                      THEN [cached EXCEPT ![CHOOSE i \in existing : \A j \in existing : i <= j]
                                            = agent]
                      ELSE Append(cached, agent),
                      Tail(found))

(* directory.js search(query); answer is result.agents *)
directorySearch(response, answer, now) ==
  LET cache == loadFile("directory_cache.json", NoCache)
  IN IF response = "ok"
     THEN Outcome(answer,
                  saveFile(files, "directory_cache.json",
                           [agents |-> mergeAgents(cache.agents, answer),
                            lastUpdated |-> Some(now)]))
     ELSE Outcome(searchCache, files)

(* directory.js getProfile(publicKey); answer is the relay's json *)
getProfile(publicKey, response, answer) ==
  LET keyHex == toKeyHex(publicKey)
      agents == loadFile("directory_cache.json", NoCache).agents
      cached == {i \in 1..Len(agents) : agents[i].publicKey = keyHex}
  IN IF response = "ok" THEN Outcome(answer, files)
     ELSE IF cached # {}
     THEN Outcome(agents[CHOOSE i \in cached : \A j \in cached : i <= j], files)
     ELSE IF response = "404" THEN Outcome(Throw("Agent not found in directory"), files)
     ELSE IF response = "network" THEN Outcome(Throw("fetch failed"), files)
     ELSE Outcome(Throw("Failed to get profile"), files)

(* webhook.js register(callbackUrl) *)
webhookRegister(callbackUrl, response, now) ==
  LET config == [enabled |-> TRUE, url |-> Some(callbackUrl), registeredAt |-> Some(now)]
  IN IF response = "ok"
     THEN Outcome([registered |-> TRUE, url |-> callbackUrl],
                  saveFile(files, "webhook.json", config @@ [serverSupport |-> TRUE]))
     ELSE IF response = "404"
     THEN Outcome([registered |-> FALSE, pending |-> TRUE, url |-> callbackUrl],
                  saveFile(files, "webhook.json", config @@ [serverSupport |-> FALSE]))
     ELSE IF response = "network" THEN Outcome(Throw("fetch failed"), files)
     ELSE Outcome(Throw("Failed to register webhook"), files)

(* webhook.js unregister() *)
webhookUnregister(response) ==
  Outcome([unregistered |-> TRUE],
          saveFile(files, "webhook.json",
                   [enabled |-> FALSE, url |-> None, registeredAt |-> None,
                    serverSupport |-> FALSE]))

(* one call of a module by the agent: its outcome becomes the state *)
Call(name, input, response, outcome) ==
  /\ returned' = Return(name, [args |-> input, response |-> response], outcome.result)
  /\ files' = outcome.files
  /\ lastOp' = Op(name, Self, Self)
  /\ lastEval' = NoEval
  /\ UNCHANGED <<clock, convs, sentRun, inMsg, inConv>>
  /\ UNCHANGED <<pendingTasks, waits, responses, workers, completed>>
  /\ UNCHANGED <<identities, friends, groupRelay, taskHandlers>>
  /\ UNCHANGED relayVars

(* ---------------------------------------------------------------------- *)
(* Specification of the calls of the presence, directory and webhook      *)
(* modules against a relay that answers, answers 404 or 500, or cannot be *)
(* reached                                                                *)
(* ---------------------------------------------------------------------- *)
SyncStatuses == {"online", "away", "sleeping"}
SyncUrls == {"https://al.example/hook"}
SyncProfiles ==
  {[description |-> None, visibility |-> None],
   [description |-> Some("helper"), visibility |-> Some("friends")]}

BoKey == DefaultIdentities["Bo"].publicKey
BoPresence == [status |-> "busy", statusMessage |-> None]
BoProfile == [displayName |-> "Bo", publicKey |-> base64ToHex(BoKey)]

(* the files at the start: no cache, or Bo in the caches *)
SyncFiles ==
  {NoFiles,
   [NoFiles EXCEPT
      !["friend_presence_cache.json"] =
        Some(base64ToHex(BoKey) :> (BoPresence @@ [cachedAt |-> DecideT0])),
      !["directory_cache.json"] =
        Some([agents |-> <<BoProfile>>, lastUpdated |-> Some(DecideT0)])]}

SyncInit == \E f \in SyncFiles : PeerInit(DefaultIdentities, ChannelFriends, f)

SyncNext ==
  \/ \E status \in SyncStatuses, r \in Responses :
       Call("setStatus", status, r, setStatus(status, None, r, clock))
  \/ \E key \in {BoKey, base64ToHex(BoKey)}, r \in Responses :
       Call("getFriendPresence", key, r, getFriendPresence(key, r, BoPresence, clock))
  \/ \E r \in Responses :
       Call("getAllFriendsPresence", <<>>, r,
            getAllFriendsPresence(friends[Self], r, base64ToHex(BoKey) :> BoPresence, clock))
  \/ \E profileData \in SyncProfiles, r \in Responses :
       Call("directory.register", profileData, r,
            directoryRegister(identities[Self], profileData, r, clock))
  \/ \E r \in Responses :
       Call("directory.search", <<>>, r, directorySearch(r, <<BoProfile>>, clock))
  \/ \E key \in {BoKey, base64ToHex(BoKey)}, r \in Responses :
       Call("directory.getProfile", key, r, getProfile(key, r, BoProfile))
  \/ \E url \in SyncUrls, r \in Responses :
       Call("webhook.register", url, r, webhookRegister(url, r, clock))
  \/ \E r \in Responses : Call("webhook.unregister", <<>>, r, webhookUnregister(r))

SpecSync == SyncInit /\ [][SyncNext]_vars

(* the file each update writes *)
FileOf(call) ==
  CASE call = "setStatus" -> "presence.json"
    [] call = "directory.register" -> "profile.json"
    [] call = "webhook.register" -> "webhook.json"

(* C28: presence.setStatus, directory.register and webhook.register write *)
(* the local file on every outcome of the relay call: success, 404, any   *)
(* other HTTP error, network failure.                                     *)
C28_UpdateAlwaysSavedLocally ==
  [][(/\ lastOp'.op \in {"setStatus", "directory.register", "webhook.register"}
      /\ ~(lastOp'.op = "setStatus" /\ returned'.input.args \notin STATUS_TYPES)) =>
        /\ files'[FileOf(lastOp'.op)] # None
        /\ LET saved == files'[FileOf(lastOp'.op)][1]
               args == returned'.input.args
           IN CASE lastOp'.op = "setStatus" ->
                     saved.status = args /\ saved.lastUpdated = clock
                [] lastOp'.op = "directory.register" ->
                     saved.description = withDefault(args.description, "")
                [] lastOp'.op = "webhook.register" ->
                     saved.enabled /\ saved.url = Some(args)]_vars

(* C29: a 404 answer of the relay never makes a call of the presence,     *)
(* directory or webhook module raise an error: each returns a result.     *)
C29_NotFoundNeverRaises ==
  (/\ returned.call \in {"setStatus", "getFriendPresence", "getAllFriendsPresence",
                         "directory.register", "directory.search", "directory.getProfile",
                         "webhook.register", "webhook.unregister"}
   /\ returned.input.response = "404"
   /\ ~(returned.call = "setStatus" /\ returned.input.args \notin STATUS_TYPES)) =>
     ~throws(returned.output)


(* C30: in the auto-reply loop the verdict for an inbound message is      *)
(* computed from the conversation as it is after that message has been    *)
(* recorded: the snapshot given to shouldReply has the turn count and the *)
(* digest window that include the message under evaluation.               *)
C30_VerdictAfterRecording ==
  (lastOp.op = "processAndReply" /\ lastEval.done) =>
     /\ lastEval.storedConv # None
     /\ lastEval.conversation.turn = lastEval.storedConv[1].turn
     /\ lastEval.conversation.messageHashes = lastEval.storedConv[1].messageHashes
     /\ lastEval.conversation.lastSpeaker = "peer"


NoticeMaxInjected == 5
NoticeMaxTicks == 2
NoticeTexts == {TxtFyi}

(* the store after n messages exchanged with a peer, the peer speaking first *)
RECURSIVE exchanged(_, _, _)
exchanged(peerId, n, now) ==
  IF n = 0 THEN EmptyStore
  ELSE IF n % 2 = 1
       THEN recordReceivedMessage(exchanged(peerId, n - 1, now), peerId,
                                  TextMessage(Some(TxtWeather)), now)
       ELSE recordSentMessage(exchanged(peerId, n - 1, now), peerId,
                              TextMessage(Some(TxtReplyQuestion)), now)

NoticeInit ==
  /\ clock = DecideT0
  /\ convs \in {[a \in Agents |-> EmptyStore],
                [a \in Agents |->
                   IF a = Self THEN exchanged("Bo", maxTurns, DecideT0 - cooldownMs)
                   ELSE EmptyStore]}
  /\ lastOp = NoOp
  /\ sentRun = [a \in Agents |-> [p \in Agents \cup Peers |-> 0]]
  /\ lastEval = NoEval
  /\ inMsg = NoMessage
  /\ inConv = newConversation("Bo")
  /\ inbox = [a \in Agents |-> <<>>]
  /\ batch = [a \in Agents |-> <<>>]
  /\ autoSent = [a \in Agents |-> 0]
  /\ injected = 0
  /\ SideInit

NoticeNext ==
  \/ \E t \in NoticeTexts : SendByHand("Bo", Self, t, NoticeMaxInjected)
  \/ CheckMessages(Self)
  \/ \E o \in SendOutcomes, k \in 0..2 : HandleMessage(Self, o, k, NoticeMaxInjected + 1)
  \/ Tick(DecideT0 + NoticeMaxTicks * cooldownMs)
  \/ ResetConversation(Self, "Bo")

SpecNotice == NoticeInit /\ [][NoticeNext]_vars

noticesIn(box, text) == Cardinality({i \in 1..Len(box) : box[i].text = text})

C33_AtMostOneEndSessionNotice ==
  /\ \A p \in Agents : noticesIn(inbox[p], TxtEndNotice) <= 1
  /\ (lastOp.op = "processAndReply" /\ lastEval.verdict.sendEndSession) =>
        ~convs[lastEval.agent][lastEval.peer].active



(* ---------------------------------------------------------------------- *)
(* Task requests (tasks.js): registerTaskHandler, unregisterTaskHandler,  *)
(* handleTaskRequest and sendTaskResponse                                 *)
(* ---------------------------------------------------------------------- *)
TaskNames == {"weather", "search"}
HandlerOutcomes == {"returns", "throws"}

(* JSON.stringify(message) *)
stringify(value) == <<"json", value>>

(* sendTaskResponse(friendName, taskId, status, result): the boxes of the  *)
(* relay after, and what the call returns; the result of sendToFriend is   *)
(* awaited and not read                                                    *)
sendTaskResponse(boxes, self, friendName, taskId, status, result, outcome, now) ==
  LET message == [type |-> "task_response", taskId |-> taskId, status |-> status,
                  result |-> result]
  IN [boxes |-> sendToFriend(boxes, self, friendName, stringify(message), outcome, now),
      returns |-> IF outcome = "throws" THEN Throw("send failed")
                  ELSE [sent |-> TRUE, taskId |-> taskId]]

(* handleTaskRequest(from, request): the sendTaskResponse calls it makes,  *)
(* the boxes of the relay after, and what it returns or throws; sends are  *)
(* the outcomes of the first and of the second sendToFriend call           *)
handleTaskRequest(handlers, boxes, self, from, request, handlerOutcome, sends, now) ==
  LET taskId == request.taskId
      firstSend == sends[1]
      secondSend == sends[2]
      task == request.task
      call(status) == [taskId |-> taskId, status |-> status]
  IN IF task \notin handlers
     THEN LET r == sendTaskResponse(boxes, self, from, taskId, "rejected",
                                    [error |-> "Unknown task", task |-> task,
                                     availableTasks |-> handlers],
                                    firstSend, now)
          IN [calls |-> <<call("rejected")>>, boxes |-> r.boxes,
              returns |-> IF throws(r.returns) THEN r.returns
                          ELSE [type |-> "task_rejected", taskId |-> taskId, task |-> task,
                                from |-> from, reason |-> "no_handler"]]
     ELSE LET tried == handlerOutcome = "returns"
              s == sendTaskResponse(boxes, self, from, taskId, "success",
                                    [value |-> task], firstSend, now)
              caught == ~tried \/ throws(s.returns)
              before == IF tried THEN s.boxes ELSE boxes
              e == sendTaskResponse(before, self, from, taskId, "error",
                                    [error |-> IF tried THEN "send failed"
                                               ELSE "handler failed"],
                                    IF tried THEN secondSend ELSE firstSend, now)
          IN IF ~caught
             THEN [calls |-> <<call("success")>>, boxes |-> s.boxes,
                   returns |-> [type |-> "task_completed", taskId |-> taskId, task |-> task,
                                from |-> from, result |-> [value |-> task]]]
             ELSE [calls |-> (IF tried THEN <<call("success")>> ELSE <<>>)
                               \o <<call("error")>>,
                   boxes |-> e.boxes,
                   returns |-> IF throws(e.returns) THEN e.returns
                               ELSE [type |-> "task_error", taskId |-> taskId, task |-> task,
                                     from |-> from,
                                     error |-> IF tried THEN "send failed"
                                               ELSE "handler failed"]]

RegisterTaskHandler(taskName) ==
  /\ taskHandlers' = taskHandlers \cup {taskName}
  /\ lastOp' = Op("registerTaskHandler", Self, taskName)
  /\ UNCHANGED <<clock, convs, sentRun, lastEval, inMsg, inConv>>
  /\ UNCHANGED relayVars
  /\ UNCHANGED <<returned, pendingTasks, waits, responses, workers, completed>>
  /\ UNCHANGED <<identities, friends, groupRelay, files>>

UnregisterTaskHandler(taskName) ==
  /\ taskHandlers' = taskHandlers \ {taskName}
  /\ lastOp' = Op("unregisterTaskHandler", Self, taskName)
  /\ UNCHANGED <<clock, convs, sentRun, lastEval, inMsg, inConv>>
  /\ UNCHANGED relayVars
  /\ UNCHANGED <<returned, pendingTasks, waits, responses, workers, completed>>
  /\ UNCHANGED <<identities, friends, groupRelay, files>>

(* processTaskMessage on a task_request of peer from: handleTaskRequest *)
HandleTaskRequest(a, from, request, handlerOutcome, firstSend, secondSend, maxHeld) ==
  /\ Len(inbox[from]) < maxHeld
  /\ LET r == handleTaskRequest(taskHandlers, inbox, a, from, request, handlerOutcome,
                                <<firstSend, secondSend>>, clock)
     IN /\ inbox' = r.boxes
        /\ returned' = Return("handleTaskRequest",
                              [from |-> from, request |-> request, handler |-> handlerOutcome],
                              [calls |-> r.calls, returns |-> r.returns])
  /\ lastOp' = Op("handleTaskRequest", a, from)
  /\ UNCHANGED <<clock, convs, sentRun, lastEval, inMsg, inConv, batch, autoSent, injected>>
  /\ UNCHANGED <<pendingTasks, waits, responses, workers, completed>>
  /\ UNCHANGED peerVars

RequestMaxHeld == 2
TaskRequests ==
  {[type |-> "task_request", taskId |-> t, task |-> n] : t \in TaskIds, n \in TaskNames}

RequestNext ==
  \/ \E n \in TaskNames : RegisterTaskHandler(n)
  \/ \E n \in TaskNames : UnregisterTaskHandler(n)
  \/ \E request \in TaskRequests, h \in HandlerOutcomes, s1 \in SendOutcomes, s2 \in SendOutcomes :
       HandleTaskRequest(Self, "Bo", request, h, s1, s2, RequestMaxHeld)

SpecRequests == ApiInit /\ [][RequestNext]_vars

(* C34: for every task_request, handleTaskRequest calls sendTaskResponse   *)
(* exactly once, with the taskId of the request, and with status rejected  *)
(* iff the task name has no handler, success iff the handler returned,     *)
(* error iff the handler threw, whatever the outcome of the send.          *)
C34_OneTaskResponsePerRequest ==
  lastOp.op = "handleTaskRequest" =>
    LET calls == returned.output.calls
        request == returned.input.request
        registered == request.task \in taskHandlers
    IN /\ Len(calls) = 1
       /\ calls[1].taskId = request.taskId
       /\ calls[1].status = "rejected" <=> ~registered
       /\ calls[1].status = "success" <=> (registered /\ returned.input.handler = "returns")
       /\ calls[1].status = "error" <=> (registered /\ returned.input.handler = "throws")



(* ---------------------------------------------------------------------- *)
(* The results object of processAndReply (auto-reply.js)                  *)
(* ---------------------------------------------------------------------- *)
NoResults == [received |-> <<>>, replied |-> <<>>, skipped |-> <<>>, errors |-> <<>>]

push(results, field, entry) == [results EXCEPT ![field] = Append(@, entry)]

(* an iteration that forgets the send that returned success: false *)
iterationResultsFailureDropped(results, msg, v, intent, replyData, outcome) ==
  LET received == push(results, "received",
                       [from |-> msg.from, text |-> msg.text, timestamp |-> msg.timestamp])
  IN IF ~v.reply
     THEN push(received, "skipped", [from |-> msg.from, reason |-> v.reason, intent |-> intent])
     ELSE IF outcome = "ok"
          THEN push(received, "replied", [to |-> msg.from, text |-> replyData.text,
                                          intent |-> intent,
                                          expectReply |-> replyData.expectReply])
          ELSE IF outcome = "throws"
               THEN push(received, "errors", [to |-> msg.from, error |-> "send failed"])
               ELSE received

(* what one iteration of the for loop pushes on results: the message on    *)
(* received, then an entry on skipped, replied or errors; a notice whose   *)
(* send throws is caught by the outer catch, after the skipped entry       *)
iterationResults(results, msg, v, intent, replyData, outcome) ==
  LET received == push(results, "received",
                       [from |-> msg.from, text |-> msg.text, timestamp |-> msg.timestamp])
      skipped == push(received, "skipped",
                      [from |-> msg.from, reason |-> v.reason, intent |-> intent])
  IN IF ~v.reply
     THEN IF (v.sendEndSession \/ v.sendLoopSignal) /\ outcome = "throws"
          THEN push(skipped, "errors", [error |-> "send failed"])
          ELSE skipped
     ELSE IF outcome = "ok"
          THEN push(received, "replied", [to |-> msg.from, text |-> replyData.text,
                                          intent |-> intent,
                                          expectReply |-> replyData.expectReply])
          ELSE push(received, "errors",
                    [to |-> msg.from,
                     error |-> IF outcome = "throws" THEN "send failed" ELSE "not sent"])

(* checkAndReply: the summary of the results *)
checkAndReply(results) ==
  LET summary == [received |-> Len(results.received), replied |-> Len(results.replied),
                  skipped |-> Len(results.skipped), errors |-> Len(results.errors)]
  IN IF summary.received > 0 \/ summary.errors > 0
     THEN [summary |-> summary, details |-> Some(results)]
     ELSE [summary |-> summary, details |-> None]

(* processAndReply up to the for loop: the results object is created and   *)
(* checkMessages has returned messages                                     *)
StartProcessAndReply(a) ==
  /\ batch[a] = <<>>
  /\ inbox[a] # <<>>
  /\ batch' = [batch EXCEPT ![a] = inbox[a]]
  /\ inbox' = [inbox EXCEPT ![a] = <<>>]
  /\ returned' = Return("processAndReply", a, NoResults)
  /\ lastOp' = Op("checkMessages", a, a)
  /\ lastEval' = NoEval
  /\ UNCHANGED <<clock, convs, sentRun, inMsg, inConv, autoSent, injected>>
  /\ UNCHANGED <<pendingTasks, waits, responses, workers, completed>>
  /\ UNCHANGED peerVars

(* one iteration of the for loop and what it pushes on results *)
HandleMessageResults(a, outcome, pick, sendBound) ==
  /\ ProcessMessage(a, outcome, pick, sendBound)
  /\ returned.call = "processAndReply"
  /\ LET msg == nextOfBatch(batch[a])
         intent == classifyIntentTable[msg.text]
     IN returned' = Return("processAndReply", a,
                           iterationResults(returned.output, msg, lastEval'.verdict, intent,
                                            generateReply(msg, intent, a, pick), outcome))
  /\ UNCHANGED <<pendingTasks, waits, responses, workers, completed>>
  /\ UNCHANGED peerVars

ResultsMaxInjected == 3
ResultsMaxTicks == 1

ResultsNext ==
  \/ \E t \in CourtesyTexts : SendByHand("Bo", Self, t, ResultsMaxInjected)
  \/ StartProcessAndReply(Self)
  \/ \E o \in SendOutcomes, k \in 0..2 : HandleMessageResults(Self, o, k, ResultsMaxInjected)
  \/ Tick(DecideT0 + ResultsMaxTicks * cooldownMs)

SpecResults == ApiInit /\ [][ResultsNext]_vars

perMessageErrors(results) ==
  Cardinality({i \in 1..Len(results.errors) : "to" \in DOMAIN results.errors[i]})

aborted(results) == \E i \in 1..Len(results.errors) : "to" \notin DOMAIN results.errors[i]

(* C37: when processAndReply returns, and the batch was not aborted by an  *)
(* exception outside the send of a reply, every received message is        *)
(* accounted for exactly once: received.length = replied.length +          *)
(* skipped.length + the number of per-message entries of errors, and the   *)
(* summary of checkAndReply carries these lengths.                         *)
C37_EveryMessageAccountedOnce ==
  (lastOp.op = "processAndReply" /\ batch[lastOp.agent] = <<>>
     /\ ~aborted(returned.output)) =>
    LET results == returned.output
        summary == checkAndReply(results).summary
    IN /\ Len(results.received) =
            Len(results.replied) + Len(results.skipped) + perMessageErrors(results)
       /\ summary.received = summary.replied + summary.skipped + summary.errors
       /\ summary.received > 0

C37_Witness ==
  /\ lastOp.op = "processAndReply"
  /\ batch[Self] = <<>>
  /\ ~aborted(returned.output)
  /\ Len(returned.output.received) = 3
  /\ Len(returned.output.replied) = 1
  /\ Len(returned.output.skipped) = 1
  /\ perMessageErrors(returned.output) = 1



(* ---------------------------------------------------------------------- *)
(* Shape of the verdicts of shouldReply                                   *)
(* ---------------------------------------------------------------------- *)
flagsOf(v) ==
  {f \in {"sendEndSession", "sendLoopSignal", "sendAck"} : v[f]}
    \cup (IF v.waitMs # None THEN {"waitMs"} ELSE {})

(* C35: every verdict of shouldReply is well formed: reply is true iff an  *)
(* intent and no reason is returned (a verdict with reply false has a      *)
(* reason and no intent); sendEndSession comes only with                   *)
(* max_turns_reached, sendLoopSignal only with loop_detected, sendAck only *)
(* with no_action_needed, waitMs only with cooldown; at most one of them   *)
(* is set.                                                                 *)
C35_VerdictWellFormed ==
  lastEval.done =>
    LET v == lastEval.verdict
    IN /\ v.reply <=> (v.intent # undefined /\ v.reason = undefined)
       /\ ~v.reply <=> (v.intent = undefined /\ v.reason # undefined)
       /\ v.intent # undefined => v.intent \in Intent
       /\ v.sendEndSession => v.reason = "max_turns_reached"
       /\ v.sendLoopSignal => v.reason = "loop_detected"
       /\ v.sendAck => v.reason = "no_action_needed"
       /\ v.waitMs # None => (v.reason = "cooldown" /\ v.waitMs[1] > 0)
       /\ Cardinality(flagsOf(v)) <= 1

C35_Witness ==
  /\ lastEval.done
  /\ lastEval.verdict.reason = "cooldown"
  /\ flagsOf(lastEval.verdict) = {"waitMs"}
  /\ lastEval.message.type = MSG


(* C36: shouldReply changes the stored state only for a CONTROL envelope   *)
(* with signal end_session, where it sets active=false on the stored       *)
(* record of the snapshot's peer and does nothing when that peer has no    *)
(* stored record; it never creates or deletes a record and never changes   *)
(* turn, lastSpeaker, lastMessageTime or the digest window.                *)
C36_DecisionWritesOnlyActive ==
  [][lastOp'.op = "shouldReply" =>
       LET a == lastEval'.agent
           m == lastEval'.message
           p == lastEval'.conversation.peerId
           ends == m.type = CONTROL /\ m.body.signal = END_SESSION
       IN /\ \A b \in Agents \ {a} : convs'[b] = convs[b]
          /\ DOMAIN convs'[a] = DOMAIN convs[a]
          /\ \A q \in DOMAIN convs[a] :
               /\ convs'[a][q].peerId = convs[a][q].peerId
               /\ convs'[a][q].turn = convs[a][q].turn
               /\ convs'[a][q].lastSpeaker = convs[a][q].lastSpeaker
               /\ convs'[a][q].lastMessageTime = convs[a][q].lastMessageTime
               /\ convs'[a][q].messageHashes = convs[a][q].messageHashes
               /\ convs'[a][q].active =
                    IF ends /\ q = p THEN FALSE ELSE convs[a][q].active]_vars

C36_Witness ==
  /\ lastEval.done
  /\ lastOp.op = "shouldReply"
  /\ lastEval.message.type = CONTROL
  /\ lastEval.message.body.signal = END_SESSION
  /\ lastEval.storedConv = None
  /\ lastEval.conversation.active
  /\ convs[Self] = EmptyStore



(* ---------------------------------------------------------------------- *)
(* Specification of one agent running processAndReply on a peer that      *)
(* sends control envelopes and notices as texts                           *)
(* ---------------------------------------------------------------------- *)
WrapMaxInjected == 3
WrapMaxTicks == 1
WrapTexts == {TxtEndSessionControl, TxtEndNotice, TxtThanks}

WrapNext ==
  \/ \E t \in WrapTexts : SendByHand("Bo", Self, t, WrapMaxInjected)
  \/ CheckMessages(Self)
  \/ \E o \in SendOutcomes, k \in 0..2 : HandleMessage(Self, o, k, WrapMaxInjected)
  \/ Tick(DecideT0 + WrapMaxTicks * cooldownMs)

SpecWrap == ApiInit /\ [][WrapNext]_vars

(* the reasons shouldReply can give to an MSG with expectReply true, ttl 20 *)
LoopReasons ==
  {"conversation_inactive", "max_turns_reached", "cooldown", "loop_detected",
   "no_action_needed"}

(* C38: the auto-reply loop gives shouldReply every inbound message as an  *)
(* MSG with expectReply=true and ttl=20 whose body.text is the text        *)
(* received, so a verdict that holds back the reply has one of the reasons *)
(* conversation_inactive, max_turns_reached, cooldown, loop_detected,      *)
(* no_action_needed, and an end_session control sent by the peer does not  *)
(* end the conversation: the loop stores active=false only on its own      *)
(* loop_detected verdict.                                                  *)
C38_LoopWrapsEveryMessage ==
  [][lastOp'.op = "processAndReply" =>
       LET a == lastEval'.agent
           p == lastEval'.peer
           m == lastEval'.message
           v == lastEval'.verdict
           msg == nextOfBatch(batch[a])
       IN /\ m.type = MSG
          /\ m.expectReply = Some(TRUE)
          /\ m.ttl = Some(20)
          /\ m.body.text = Some(msg.text)
          /\ p = msg.from
          /\ v.reply \/ v.reason \in LoopReasons
          /\ ~convs'[a][p].active =>
               \/ v.sendLoopSignal
               \/ (p \in DOMAIN convs[a] /\ ~convs[a][p].active)]_vars

C38_Witness ==
  /\ lastOp.op = "processAndReply"
  /\ lastEval.message.body.text = Some(TxtEndSessionControl)
  /\ lastEval.message.type = MSG
  /\ lastEval.verdict.reason \notin ControlReasons
  /\ convs[Self]["Bo"].active
  /\ convs[Self]["Bo"].turn >= 1



(* ---------------------------------------------------------------------- *)
(* Task waits whose timers fire: a timer armed by setTimeout runs its     *)
(* callback unless clearTimeout was called first                          *)
(* ---------------------------------------------------------------------- *)
SpecTasksFair == SpecTasks /\ \A w \in WaitIds : WF_vars(TimerFires(w))

(* C39: a task_response processed while no wait is registered for its     *)
(* taskId is not retained: handleTaskResponse leaves pendingTasks and the  *)
(* waits as they are; a wait is resolved only by a handleTaskResponse for  *)
(* its taskId that runs while it is registered; and a wait still pending   *)
(* when every response has been processed ends by its timeout.             *)
C39_UnmatchedResponseNotRetained ==
  /\ [][/\ (lastOp'.op = "handleTaskResponse" /\ lastOp'.peer \notin DOMAIN pendingTasks) =>
             (pendingTasks' = pendingTasks /\ waits' = waits)
        /\ \A w \in WaitIds :
             (waits'[w].promise = "resolved" /\ waits[w].promise # "resolved") =>
               /\ lastOp'.op = "handleTaskResponse"
               /\ responses' = responses + 1
               /\ pendingOn(w, lastOp'.peer)]_vars
  /\ \A w \in WaitIds :
       (waits[w].promise = "pending" /\ responses = TaskMaxResponses)
         ~> (waits[w].promise = "rejected" /\ waits[w].timer = "fired")

C39_Witness ==
  /\ lastOp.op = "timeout"
  /\ responses = TaskMaxResponses
  /\ waits["w1"].promise = "rejected"
  /\ waits["w1"].taskId = "t1"
  /\ waits["w1"].resolveCalls = 0
  /\ waits["w2"].promise = "none"
  /\ pendingTasks = EmptyStore

====
